---- MODULE Spec2Model ----
(***************************************************************************)
(* A model of the flowmap data pipeline (scripts/prepare-data.mjs) and of  *)
(* the playback-time transforms of the viewer (src/App.tsx,                *)
(* src/scene/NetRetentionPeaks.tsx).                                       *)
(*                                                                         *)
(* Numbers.  JavaScript numbers are modelled as fixed-point integers:      *)
(*   - quantities (qty, total, hourly, bins, inbound): units of 1e-5, so   *)
(*     that round(x, 4) is a real rounding (to a multiple of 10 units);    *)
(*   - longitudes / latitudes: units of 1e-7 degree, so that toFixed(6)    *)
(*     is a real rounding (to a multiple of 10 units);                     *)
(*   - hours of a row: half hours, so that Math.floor(hour) is a real      *)
(*     floor;                                                              *)
(*   - fractions that the code does not round (cuts and w in App.tsx) are  *)
(*     exact rationals <<num, den>> with den > 0; fractions the pipeline   *)
(*     rounds to 6 decimals are integers in millionths;                    *)
(*   - Math.sqrt is a fixed-point square root rounded to one decimal: as   *)
(*     in binary64, the root has finite precision, and two different       *)
(*     values can have the same root.                                      *)
(* NaN (what Number() gives for an unparsable cell) is the value NaN;      *)
(* +Infinity / -Infinity are PosInf / NegInf.                              *)
(***************************************************************************)
EXTENDS Integers, Sequences, FiniteSets, TLC

VARIABLES
    \* ---- scripts/prepare-data.mjs: one process per run of main()
    header,        \* lines[0] split into cells; <<>> when the file has no line
    rows,          \* lines[1..] as parsed numeric cells (Number(cell))
    pc,            \* position of main(): start, rows, derive, write, done, failed
    i,             \* the row loop's index (1-based into rows)
    cols,          \* the six resolved column indexes
    acc,           \* nodeMap, destinationMap, flowMap, bounding box, counters
    out,           \* meta, nodes, destinations, flows, hourly as computed
    written,       \* the artifacts this run has written
    exitCode,      \* process.exitCode
    error,         \* the message of the Error main() rejected with, "" when none
    run,           \* which run of the script this is (1 = first)
    prevOut,       \* what the previous run computed (for comparing reruns)
    \* ---- src/scene/NetRetentionPeaks.tsx: the component and its geometry memo
    flows,         \* the flows prop
    gridSize,      \* the gridSize prop, in 1e-4 plane units
    smoothNet,     \* smoothNetRef.current: cell key -> smoothed net, insertion order
    smoothMax,     \* smoothMaxRef.current, in quantity units
    rawCells,      \* the rawCells map of the latest run of the memo
    calls,         \* runs of the memo since the props last changed in content
    changes,       \* changes of the content of the props so far
    prior,         \* smoothNetRef.current and smoothMaxRef.current when the latest run began
    geometry,      \* the particles of the geometry the latest run built
    uniforms,      \* material.uniforms: uTime, uDayMix, uGlobalAlpha
    \* ---- src/App.tsx: the state of App and its baseFlows memo
    data,          \* the loaded dataset, or NoData before loadODData resolves
    mode,          \* "aggregated" or "hourly"
    hourPosition,  \* in quarter hours
    baseFlows,     \* the value of the baseFlows memo
    playing,       \* the Play / Pause state of the hourly animation
    appError,      \* the error state of App: "" is null, else the file named in the message
    fetchFailed,   \* the files whose fetch failed when loadODData ran
    \* ---- src/scene/NetRetentionPeaks.tsx: the particle loop of the memo on its own
    cellsArg,      \* positiveCells, sorted by descending net
    sizeArg,       \* gridSize
    maxArg,        \* maxReference
    built,         \* the particles the loop emitted
    loopPc,        \* "ready" before the loop has run, "built" after
    \* ---- scripts/prepare-data.mjs: parseCsvLine on its own
    csvFields,     \* the fields a line was written from
    csvLine,       \* the line, character by character
    csvCells,      \* what parseCsvLine returned
    csvPc,         \* "ready" before parseCsvLine has run, "parsed" after
    \* ---- src/App.tsx: interpolateHourlyFlows on its own
    hourArg,       \* hourPosition, in quarter hours
    hourOut,       \* lowerHour, upperHour, blend and the flows returned
    hourPc,        \* "ready" before interpolateHourlyFlows has run, "done" after
    \* ---- buildFlowRibbonGeometry on its own
    samplesArg,    \* options.samples, in halves, or NoOption
    ribbon,        \* the sample count used and the attributes of the geometry returned
    ribbonPc,      \* "ready" before buildFlowRibbonGeometry has run, "built" after
    \* ---- src/scene/FlowCanvas.tsx: the alpha-mask effect
    effects,       \* one record per run of the effect: its closure and its load
    alphaMask,     \* the alphaMask state of the mounted FlowCanvas: 0 is null
    \* ---- src/App.tsx: the threshold and the flows handed to the canvas
    activeFlows,   \* baseFlows as runs of flows of one total, in array order
    threshold,     \* the threshold state
    visibleFlows   \* the visibleFlows memo, as runs

pipeVars == <<header, rows, pc, i, cols, acc, out, written, exitCode, error, run, prevOut>>

gridVars == <<flows, gridSize, smoothNet, smoothMax, rawCells, calls, changes, prior, geometry,
             uniforms>>

appVars == <<data, mode, hourPosition, baseFlows, playing, appError, fetchFailed>>

loopVars == <<cellsArg, sizeArg, maxArg, built, loopPc>>

csvVars == <<csvFields, csvLine, csvCells, csvPc>>

hourVars == <<hourArg, hourOut, hourPc>>

ribbonVars == <<samplesArg, ribbon, ribbonPc>>

maskVars == <<effects, alphaMask>>

shownVars == <<activeFlows, threshold, visibleFlows>>

vars == <<pipeVars, gridVars, appVars, loopVars, csvVars, hourVars, ribbonVars, maskVars, shownVars>>

(***************************************************************************)
(* Bounds of the model                                                     *)
(***************************************************************************)
MaxRows == 2       \* data rows in the input file
MaxRuns == 2       \* runs of the script over the same file
MaxAppRows == 2    \* data rows behind the dataset the viewer loads
MaxCalls == 70     \* consecutive runs of the geometry memo on unchanged props
MaxChanges == 1    \* changes of the props of NetRetentionPeaks
MaxSettle == 2     \* runs of the memo after which the props may still change
MaxTicks == 2      \* rendered frames (calls of the useFrame callback)
MaxPosition == 100 \* playback stops once hourPosition is this many quarter hours

(***************************************************************************)
(* Numbers                                                                 *)
(***************************************************************************)
NaN == -999999999
PosInf == 1000000000
NegInf == -1000000000

isFinite(v) == v # NaN /\ v # PosInf /\ v # NegInf

Min2(a, b) == IF a <= b THEN a ELSE b
Max2(a, b) == IF a >= b THEN a ELSE b

\* Math.round(num / den) for den > 0: the nearest integer, halves going up.
MathRound(num, den) == (2 * num + den) \div (2 * den)

\* Rationals <<num, den>>, den > 0.
RatLe(p, q) == p[1] * q[2] <= q[1] * p[2]
RatEq(p, q) == p[1] * q[2] = q[1] * p[2]
RatMin(p, q) == IF RatLe(p, q) THEN p ELSE q

Micro == 1000000          \* 10 ** 6, the factor of round(value) with digits = 6
QtyRound == 10            \* quantity units (1e-5) per 1e-4, the step of round(value, 4)
CoordRound == 10          \* coordinate units (1e-7) per 1e-6, the step of toFixed(6)
HourUnit == 2             \* row hours are given in half hours
SqrtScale == 100          \* Sqrt works on value * 10^2: one decimal of the root

\* round(value, 6) of a rational, in millionths; 0 / 0 is NaN and stays NaN.
round6(p) == IF p[2] = 0 THEN NaN ELSE MathRound(p[1] * Micro, p[2])

\* round(value, 4) of a quantity, in quantity units.
round4(v) == MathRound(v, QtyRound) * QtyRound

\* Number.prototype.toFixed(6) of a coordinate: the text, as <<sign, digits>>.  A
\* negative number keeps its "-" also when its digits round to 0 ("-0.000000").
toFixed6(v) == IF v >= 0 THEN <<"", MathRound(v, CoordRound) * CoordRound>>
               ELSE <<"-", MathRound(-v, CoordRound) * CoordRound>>

\* Math.min(1, Math.max(0, value)); NaN (0 / 0) passes through both.
clamp01(p) == IF p[1] < 0 THEN <<0, 1>> ELSE IF p[1] > p[2] THEN <<1, 1>> ELSE p

RECURSIVE SqrtSearch(_, _, _)
SqrtSearch(x, lo, hi) ==
    IF lo >= hi THEN lo
    ELSE LET mid == (lo + hi + 1) \div 2
         IN IF mid * mid <= x THEN SqrtSearch(x, mid, hi) ELSE SqrtSearch(x, lo, mid - 1)

\* Math.sqrt(v): the root rounded to the nearest value that can be represented,
\* here tenths of the root of one unit.  As with binary64, where Math.sqrt gives
\* the same double for 1 and for 1 + 2^-52, two values one step apart can have
\* the same root.
Sqrt(v) == (SqrtSearch(4 * v * SqrtScale, 0, 40000) + 1) \div 2

\* normalizeSqrt of prepare-data.mjs (no clamp: the callers clamp).  With
\* sMax = sMin the quotient is 0 / 0.
normalizeSqrt(value, minValue, maxValue) ==
    IF maxValue <= minValue THEN <<1, 1>>
    ELSE <<Sqrt(value) - Sqrt(minValue), Sqrt(maxValue) - Sqrt(minValue)>>

RECURSIVE sumRange(_, _, _)
sumRange(values, startInclusive, endExclusive) ==
    IF startInclusive >= endExclusive THEN 0
    ELSE values[startInclusive] + sumRange(values, startInclusive + 1, endExclusive)

\* buildCutsFromBins: the three cumulative fractions, in millionths.
buildCutsFromBins(bins) ==
    LET total == bins[1] + bins[2] + bins[3] + bins[4]
    IN IF total <= 0 THEN <<250000, 500000, 750000>>
       ELSE LET c1 == <<bins[1], total>>
                c2 == <<bins[1] + bins[2], total>>
                c3 == <<bins[1] + bins[2] + bins[3], total>>
            IN <<round6(clamp01(c1)), round6(clamp01(c2)),
                 round6(clamp01(RatMin(c3, <<99, 100>>)))>>

(***************************************************************************)
(* scripts/prepare-data.mjs: header resolution                             *)
(***************************************************************************)
\* Array.prototype.indexOf: the 0-based index of the first match, or -1.
RECURSIVE indexOfFrom(_, _, _)
indexOfFrom(headers, name, k) ==
    IF k > Len(headers) THEN -1
    ELSE IF headers[k] = name THEN k - 1
    ELSE indexOfFrom(headers, name, k + 1)

indexOf(headers, name) == indexOfFrom(headers, name, 1)

RECURSIVE getIndexFrom(_, _, _)
getIndexFrom(headers, candidates, k) ==
    IF k > Len(candidates) THEN -1
    ELSE IF indexOf(headers, candidates[k]) >= 0 THEN indexOf(headers, candidates[k])
    ELSE getIndexFrom(headers, candidates, k + 1)

\* A variant of getIndex that falls back to column 0 when no alias matches.
getIndexLenient(headers, candidates) ==
    IF getIndexFrom(headers, candidates, 1) >= 0 THEN getIndexFrom(headers, candidates, 1) ELSE 0
getIndex(headers, candidates) == getIndexFrom(headers, candidates, 1)

\* The alias lists of main(); the Chinese column names are transliterated.
OriginLonNames == <<"qidian_1", "origin_lon", "o_lon">>
OriginLatNames == <<"qidian_12", "origin_lat", "o_lat">>
DestLonNames == <<"zhongdian_1", "destination_lon", "d_lon">>
DestLatNames == <<"zhongdian_12", "destination_lat", "d_lat">>
QtyNames == <<"shuliang", "count", "total", "value">>
HourNames == <<"xiaoshi", "hour">>

resolveColumns(headers) ==
    [originLonIndex |-> getIndex(headers, OriginLonNames),
     originLatIndex |-> getIndex(headers, OriginLatNames),
     destLonIndex |-> getIndex(headers, DestLonNames),
     destLatIndex |-> getIndex(headers, DestLatNames),
     qtyIndex |-> getIndex(headers, QtyNames),
     hourIndex |-> getIndex(headers, HourNames)]

schemaMismatch(c) ==
    \/ c.originLonIndex < 0 \/ c.originLatIndex < 0
    \/ c.destLonIndex < 0 \/ c.destLatIndex < 0
    \/ c.qtyIndex < 0 \/ c.hourIndex < 0

NoColumns == resolveColumns(<<>>)

(***************************************************************************)
(* scripts/prepare-data.mjs: the row loop                                  *)
(***************************************************************************)
\* Number(cells[index]); a missing cell is undefined, and Number(undefined) is NaN.
Cell(cells, index) ==
    IF index >= 0 /\ index + 1 <= Len(cells) THEN cells[index + 1] ELSE NaN

parseRow(cells, c) ==
    [oLon |-> Cell(cells, c.originLonIndex), oLat |-> Cell(cells, c.originLatIndex),
     dLon |-> Cell(cells, c.destLonIndex), dLat |-> Cell(cells, c.destLatIndex),
     qty |-> Cell(cells, c.qtyIndex), hour |-> Cell(cells, c.hourIndex)]

\* The guard of the `continue` at the top of the loop body.
rowSkipped(r) ==
    \/ ~isFinite(r.oLon) \/ ~isFinite(r.oLat) \/ ~isFinite(r.dLon) \/ ~isFinite(r.dLat)
    \/ ~isFinite(r.qty) \/ r.qty <= 0

\* The guard of the hourly update.
hourInRange(hour) == isFinite(hour) /\ hour >= 0 /\ hour < 24 * HourUnit

\* A Map kept as the sequence of its values in insertion order; 0 when absent.
RECURSIVE mapFind(_, _, _)
mapFind(m, key, k) ==
    IF k > Len(m) THEN 0
    ELSE IF m[k].key = key THEN k
    ELSE mapFind(m, key, k + 1)

\* A variant of the node id that depends on the run.
nodeIdStamped(counter) == <<"n", counter + run>>
nodeId(counter) == <<"n", counter>>
destinationId(counter) == <<"d", counter>>

EmptyAcc ==
    [nodeMap |-> <<>>, destinationMap |-> <<>>, flowMap |-> <<>>,
     minLon |-> PosInf, maxLon |-> NegInf, minLat |-> PosInf, maxLat |-> NegInf,
     nodeCounter |-> 0, destinationCounter |-> 0]

\* One iteration of the row loop on the accumulators a.
ingestRow(a, cells, c) ==
    LET r == parseRow(cells, c)
    IN IF rowSkipped(r) THEN a
       ELSE
       LET oKey == <<toFixed6(r.oLon), toFixed6(r.oLat)>>
           dKey == <<toFixed6(r.dLon), toFixed6(r.dLat)>>
           oAt == mapFind(a.nodeMap, oKey, 1)
           origin == IF oAt = 0
                     THEN [key |-> oKey, id |-> nodeId(a.nodeCounter),
                           lon |-> r.oLon, lat |-> r.oLat]
                     ELSE a.nodeMap[oAt]
           dAt == mapFind(a.destinationMap, dKey, 1)
           destination == IF dAt = 0
                          THEN [key |-> dKey, id |-> destinationId(a.destinationCounter),
                                lon |-> r.dLon, lat |-> r.dLat, inbound |-> 0]
                          ELSE a.destinationMap[dAt]
           destination2 == [destination EXCEPT !.inbound = @ + r.qty]
           flowKey == <<origin.id, destination.id>>
           fAt == mapFind(a.flowMap, flowKey, 1)
           flow == IF fAt = 0
                   THEN [key |-> flowKey, o |-> origin.id, d |-> destination.id,
                         total |-> 0, hourly |-> [h \in 0..23 |-> 0]]
                   ELSE a.flowMap[fAt]
           flow2 == [flow EXCEPT
                       !.total = @ + r.qty,
                       !.hourly = IF hourInRange(r.hour)
                                  THEN [@ EXCEPT ![r.hour \div HourUnit] = @ + r.qty]
                                  ELSE @]
       IN [nodeMap |-> IF oAt = 0 THEN Append(a.nodeMap, origin) ELSE a.nodeMap,
           destinationMap |-> IF dAt = 0 THEN Append(a.destinationMap, destination2)
                              ELSE [a.destinationMap EXCEPT ![dAt] = destination2],
           flowMap |-> IF fAt = 0 THEN Append(a.flowMap, flow2)
                       ELSE [a.flowMap EXCEPT ![fAt] = flow2],
           minLon |-> Min2(a.minLon, Min2(r.oLon, r.dLon)),
           maxLon |-> Max2(a.maxLon, Max2(r.oLon, r.dLon)),
           minLat |-> Min2(a.minLat, Min2(r.oLat, r.dLat)),
           maxLat |-> Max2(a.maxLat, Max2(r.oLat, r.dLat)),
           nodeCounter |-> IF oAt = 0 THEN a.nodeCounter + 1 ELSE a.nodeCounter,
           destinationCounter |-> IF dAt = 0 THEN a.destinationCounter + 1
                                  ELSE a.destinationCounter]

(***************************************************************************)
(* scripts/prepare-data.mjs: derived outputs                               *)
(***************************************************************************)
ProjectionSize == 220     \* scale = 220 / span
PlaneRound == 10000       \* 10 ** 4: projected coordinates keep 4 decimals

\* round((value - center) * scale, 4) in 1e-4 plane units, with scale = 220 / span,
\* center2 twice the centre; span = 0 stands for the 1e-9 floor (value = centre).
project(value, center2, span) ==
    IF span <= 0 THEN 0
    ELSE MathRound((2 * value - center2) * (ProjectionSize * (PlaneRound \div 2)), span)

RECURSIVE seqMin(_, _)
seqMin(values, k) ==
    IF k > Len(values) THEN PosInf ELSE Min2(values[k], seqMin(values, k + 1))

RECURSIVE seqMax(_, _)
seqMax(values, k) ==
    IF k > Len(values) THEN NegInf ELSE Max2(values[k], seqMax(values, k + 1))

\* Array.prototype.sort((a, b) => b.total - a.total): stable, descending by total.
RECURSIVE insertDesc(_, _)
insertDesc(sorted, x) ==
    IF sorted = <<>> THEN <<x>>
    ELSE IF Head(sorted).total >= x.total THEN <<Head(sorted)>> \o insertDesc(Tail(sorted), x)
    ELSE <<x>> \o sorted

RECURSIVE sortDescFrom(_, _, _)
sortDescFrom(items, k, sorted) ==
    IF k > Len(items) THEN sorted
    ELSE sortDescFrom(items, k + 1, insertDesc(sorted, items[k]))

\* (sortDescUnsorted: a variant that leaves the array as mapped.)
sortDescUnsorted(items) == items
sortDesc(items) == sortDescFrom(items, 1, <<>>)

\* The same sort on totals kept as rationals (App.tsx).
RECURSIVE insertDescRat(_, _)
insertDescRat(sorted, x) ==
    IF sorted = <<>> THEN <<x>>
    ELSE IF RatLe(x.total, Head(sorted).total) THEN <<Head(sorted)>> \o insertDescRat(Tail(sorted), x)
    ELSE <<x>> \o sorted

RECURSIVE sortDescRatFrom(_, _, _)
sortDescRatFrom(items, k, sorted) ==
    IF k > Len(items) THEN sorted
    ELSE sortDescRatFrom(items, k + 1, insertDescRat(sorted, items[k]))

\* (sortDescRatUnsorted: a variant that leaves the order as it is.)
sortDescRatUnsorted(items) == items
sortDescRat(items) == sortDescRatFrom(items, 1, <<>>)

\* 2 + 28 * clamp01(w), rounded to 4 decimals, in 1e-4 units.
heightOf(w) == IF w[2] = 0 THEN NaN ELSE MathRound((2 * w[2] + 28 * w[1]) * PlaneRound, w[2])

flowBins(entry) ==
    <<sumRange(entry.hourly, 0, 6), sumRange(entry.hourly, 6, 12),
      sumRange(entry.hourly, 12, 18), sumRange(entry.hourly, 18, 24)>>

roundBins(bins) == <<round4(bins[1]), round4(bins[2]), round4(bins[3]), round4(bins[4])>>

\* flowBase: every flow of flowMap with its bins and cuts.
flowBaseOf(a) ==
    [k \in 1..Len(a.flowMap) |->
        [o |-> a.flowMap[k].o, d |-> a.flowMap[k].d, total |-> a.flowMap[k].total,
         hourly |-> a.flowMap[k].hourly, bins |-> flowBins(a.flowMap[k]),
         cuts |-> buildCutsFromBins(flowBins(a.flowMap[k]))]]

flowsOf(flowBase) ==
    LET totals == [k \in 1..Len(flowBase) |-> flowBase[k].total]
        minTotal == seqMin(totals, 1)
        maxTotal == seqMax(totals, 1)
    IN sortDesc([k \in 1..Len(flowBase) |->
          [o |-> flowBase[k].o, d |-> flowBase[k].d,
           total |-> round4(flowBase[k].total),
           bins |-> roundBins(flowBase[k].bins),
           cuts |-> flowBase[k].cuts,
           w |-> round6(clamp01(normalizeSqrt(flowBase[k].total, minTotal, maxTotal)))]])

\* The filter of a frame (entry.total > 0), and a variant that keeps every flow.
frameActiveAlsoZero(flow, hour) == flow.hourly[hour] >= 0
frameActive(flow, hour) == flow.hourly[hour] > 0

frameOf(flowBase, hour) ==
    LET hourValues == SelectSeq(flowBase, LAMBDA flow : frameActive(flow, hour))
        totals == [k \in 1..Len(hourValues) |-> hourValues[k].hourly[hour]]
        frameMin == seqMin(totals, 1)
        frameMax == seqMax(totals, 1)
    IN IF Len(hourValues) = 0 THEN [hour |-> hour, flows |-> <<>>]
       ELSE [hour |-> hour,
             flows |-> sortDesc([k \in 1..Len(hourValues) |->
                [o |-> hourValues[k].o, d |-> hourValues[k].d,
                 total |-> round4(totals[k]),
                 bins |-> roundBins(hourValues[k].bins),
                 cuts |-> hourValues[k].cuts,
                 w |-> round6(clamp01(normalizeSqrt(totals[k], frameMin, frameMax)))]])]

HourCount == 24           \* Array.from({ length: 24 })

framesOf(flowBase) == [h \in 1..HourCount |-> frameOf(flowBase, h - 1)]

nodesOf(a) ==
    LET span == Max2(a.maxLon - a.minLon, a.maxLat - a.minLat)
    IN [k \in 1..Len(a.nodeMap) |->
          [id |-> a.nodeMap[k].id,
           x |-> project(a.nodeMap[k].lon, a.minLon + a.maxLon, span),
           y |-> project(a.nodeMap[k].lat, a.minLat + a.maxLat, span)]]

destinationsOf(a) ==
    LET span == Max2(a.maxLon - a.minLon, a.maxLat - a.minLat)
        inboundValues == [k \in 1..Len(a.destinationMap) |-> a.destinationMap[k].inbound]
        minInbound == seqMin(inboundValues, 1)
        maxInbound == seqMax(inboundValues, 1)
    IN [k \in 1..Len(a.destinationMap) |->
          [id |-> a.destinationMap[k].id,
           x |-> project(a.destinationMap[k].lon, a.minLon + a.maxLon, span),
           y |-> project(a.destinationMap[k].lat, a.minLat + a.maxLat, span),
           inbound |-> round4(a.destinationMap[k].inbound),
           height |-> heightOf(clamp01(normalizeSqrt(a.destinationMap[k].inbound,
                                                     minInbound, maxInbound)))]]

NoOut ==
    [ready |-> FALSE, meta |-> [createdAt |-> 0, nodeCount |-> 0,
                                destinationCount |-> 0, flowCount |-> 0],
     nodes |-> <<>>, destinations |-> <<>>, flows |-> <<>>,
     hourly |-> [hours |-> <<>>, frames |-> <<>>]]

\* Everything main() computes between the row loop and the writes.
derive(a, createdAt) ==
    LET flowBase == flowBaseOf(a)
    IN [ready |-> TRUE,
        meta |-> [createdAt |-> createdAt, nodeCount |-> Len(a.nodeMap),
                  destinationCount |-> Len(a.destinationMap),
                  flowCount |-> Len(flowBase)],
        nodes |-> nodesOf(a),
        destinations |-> destinationsOf(a),
        flows |-> flowsOf(flowBase),
        hourly |-> [hours |-> [h \in 1..HourCount |-> h - 1],
                    frames |-> framesOf(flowBase)]]

(***************************************************************************)
(* Input files                                                             *)
(***************************************************************************)
HeaderCn == <<"qidian_1", "qidian_12", "zhongdian_1", "zhongdian_12", "shuliang", "xiaoshi">>
HeaderEn == <<"origin_lon", "origin_lat", "destination_lon", "destination_lat", "count", "hour">>
HeaderShort == <<"o_lon", "o_lat", "d_lon", "d_lat", "value", "hour">>
HeaderNoHour == <<"origin_lon", "origin_lat", "destination_lon", "destination_lat", "count">>
HeaderNoQty == <<"o_lon", "o_lat", "d_lon", "d_lat", "amount", "hour">>

GoodHeaders == {HeaderCn, HeaderEn, HeaderShort}
BadHeaders == {HeaderNoHour, HeaderNoQty}

\* Data rows, as Number() of the cells origin lon, origin lat, destination lon,
\* destination lat, quantity, hour (the column order of the headers above).
RowCatalog ==
    { <<0, 0, 100, 0, 10, 6>>,        \* 0.0001 at hour 3
      <<4, 3, 100, 0, 20, 13>>,       \* same 6-decimal origin key, hour 6.5
      <<-4, 3, 100, 0, 20, 13>>,      \* the same rounded origin, from below 0
      <<100, 0, 0, 0, 4, 14>>,        \* 0.00004 at hour 7, the reverse direction
      <<0, 0, 0, 60, 30, 14>>,        \* another destination, hour 7
      <<100, 0, 0, 60, 30, 14>>,      \* the same quantity in the same hour
      <<0, 0, 0, 60, 32, 14>>,        \* 0.00032 and, from the other origin,
      <<100, 0, 0, 60, 33, 14>>,      \* 0.00033: one step apart, the same root
      <<0, 0, 100, 0, 10, 50>>,       \* hour 25
      <<0, 0, 100, 0, 10, NaN>>,      \* unparsable hour
      <<0, 0, 100, 0, 0, 6>>,         \* quantity 0
      <<NaN, 0, 100, 0, 10, 6>> }     \* unparsable longitude

RECURSIVE RowSeqs(_)
RowSeqs(n) ==
    IF n = 0 THEN {<<>>}
    ELSE RowSeqs(n - 1) \cup
         {Append(rs, r) : rs \in {q \in RowSeqs(n - 1) : Len(q) = n - 1}, r \in RowCatalog}

Files == {"meta.json", "nodes.json", "destinations.json", "flows.json", "flows-hourly.json"}

(***************************************************************************)
(* scripts/prepare-data.mjs: main() as a process                           *)
(***************************************************************************)
PipeInit ==
    /\ \/ header = <<>> /\ rows = <<>>
       \/ header = HeaderEn /\ rows \in RowSeqs(MaxRows)
       \/ header \in (GoodHeaders \cup BadHeaders) /\ rows \in RowSeqs(1)
    /\ pc = "start"
    /\ i = 1
    /\ cols = NoColumns
    /\ acc = EmptyAcc
    /\ out = NoOut
    /\ written = {}
    /\ exitCode = 0
    /\ error = ""
    /\ run = 1
    /\ prevOut = NoOut

\* readFile rejects: main() rejects, and the catch handler sets the exit code.
ReadFails ==
    /\ pc = "start"
    /\ pc' = "failed"
    /\ exitCode' = 1
    /\ error' = "ENOENT"
    /\ UNCHANGED <<header, rows, i, cols, acc, out, written, run, prevOut>>
    /\ UNCHANGED <<gridVars, appVars, loopVars, csvVars, hourVars, ribbonVars, maskVars, shownVars>>

\* readFile resolves: the line count check and the header resolution.
ReadAndResolve ==
    /\ pc = "start"
    /\ LET lineCount == (IF header = <<>> THEN 0 ELSE 1) + Len(rows)
           c == resolveColumns(header)
       IN IF lineCount < 2
          THEN /\ pc' = "failed"
               /\ exitCode' = 1
               /\ error' = "CSV file is empty."
               /\ UNCHANGED cols
          ELSE IF schemaMismatch(c)
          THEN /\ pc' = "failed"
               /\ exitCode' = 1
               /\ error' = "CSV schema mismatch"
               /\ UNCHANGED cols
          ELSE /\ pc' = "rows"
               /\ cols' = c
               /\ UNCHANGED <<exitCode, error>>
    /\ i' = 1
    /\ UNCHANGED <<header, rows, acc, out, written, run, prevOut>>
    /\ UNCHANGED <<gridVars, appVars, loopVars, csvVars, hourVars, ribbonVars, maskVars, shownVars>>

\* One iteration of the for loop over lines[1..].
IngestRow ==
    /\ pc = "rows"
    /\ i <= Len(rows)
    /\ acc' = ingestRow(acc, rows[i], cols)
    /\ i' = i + 1
    /\ UNCHANGED <<header, rows, pc, cols, out, written, exitCode, error, run, prevOut>>
    /\ UNCHANGED <<gridVars, appVars, loopVars, csvVars, hourVars, ribbonVars, maskVars, shownVars>>

\* The loop has ended: compute every output, then mkdir.
Derive ==
    /\ pc = "rows"
    /\ i > Len(rows)
    /\ out' = derive(acc, run)
    /\ pc' = "write"
    /\ UNCHANGED <<header, rows, i, cols, acc, written, exitCode, error, run, prevOut>>
    /\ UNCHANGED <<gridVars, appVars, loopVars, csvVars, hourVars, ribbonVars, maskVars, shownVars>>

\* The five writeFile calls of Promise.all complete in any order.
WriteFile(f) ==
    /\ pc = "write"
    /\ f \notin written
    /\ written' = written \cup {f}
    /\ pc' = IF written' = Files THEN "done" ELSE "write"
    /\ UNCHANGED <<header, rows, i, cols, acc, out, exitCode, error, run, prevOut>>
    /\ UNCHANGED <<gridVars, appVars, loopVars, csvVars, hourVars, ribbonVars, maskVars, shownVars>>

\* The script is started again on the same input file.
Rerun ==
    /\ pc \in {"done", "failed"}
    /\ run < MaxRuns
    /\ run' = run + 1
    /\ prevOut' = out
    /\ pc' = "start"
    /\ i' = 1
    /\ cols' = NoColumns
    /\ acc' = EmptyAcc
    /\ out' = NoOut
    /\ written' = {}
    /\ exitCode' = 0
    /\ error' = ""
    /\ UNCHANGED <<header, rows>>
    /\ UNCHANGED <<gridVars, appVars, loopVars, csvVars, hourVars, ribbonVars, maskVars, shownVars>>

PipeNext ==
    \/ ReadFails
    \/ ReadAndResolve
    \/ IngestRow
    \/ Derive
    \/ \E f \in Files : WriteFile(f)
    \/ Rerun

PipeIdle ==
    /\ header = <<>> /\ rows = <<>> /\ pc = "idle" /\ i = 1 /\ cols = NoColumns
    /\ acc = EmptyAcc /\ out = NoOut /\ written = {} /\ exitCode = 0 /\ error = ""
    /\ run = 1 /\ prevOut = NoOut

(***************************************************************************)
(* Properties of the pipeline                                              *)
(***************************************************************************)
Range(seq) == {seq[k] : k \in 1..Len(seq)}

ingested == pc \in {"write", "done"}

frameFlows(h) == out.hourly.frames[h + 1].flows

allFrameEntries == UNION {Range(frameFlows(h)) : h \in 0..(Len(out.hourly.frames) - 1)}

cutsOrdered(cuts) ==
    /\ 0 <= cuts[1] /\ cuts[1] <= cuts[2] /\ cuts[2] <= cuts[3]
    /\ 100 * cuts[3] <= 99 * Micro

\* C1: the cuts of every flow of flows.json and of every entry of every hourly
\* frame satisfy 0 <= cuts[0] <= cuts[1] <= cuts[2] <= 0.99.
C1_CutsOrderedBelow099 ==
    ingested => \A f \in Range(out.flows) \cup allFrameEntries : cutsOrdered(f.cuts)

\* C2: after the ingestion pass the four bins of every flow sum to its total.
C2_BinsSumToTotal ==
    ingested =>
        \A f \in Range(flowBaseOf(acc)) :
            f.bins[1] + f.bins[2] + f.bins[3] + f.bins[4] = f.total

\* The rows the specification calls invalid.
invalidRecord(r) ==
    \/ ~isFinite(r.oLon) \/ ~isFinite(r.oLat) \/ ~isFinite(r.dLon) \/ ~isFinite(r.dLat)
    \/ ~isFinite(r.qty) \/ ~isFinite(r.hour)
    \/ r.qty <= 0
    \/ r.hour < 0 \/ r.hour >= 24 * HourUnit

\* C3: a row with a non-finite numeric field, a quantity <= 0 or an hour outside
\* [0,23] is skipped: the step over it changes no accumulator and raises no error.
C3_InvalidRowSkipped ==
    [][(pc = "rows" /\ i <= Len(rows) /\ invalidRecord(parseRow(rows[i], cols)))
         => (acc' = acc /\ pc' = "rows" /\ exitCode' = 0)]_vars

missingColumn(names) == Range(header) \cap Range(names) = {}

fatalInput ==
    \/ (IF header = <<>> THEN 0 ELSE 1) + Len(rows) < 2
    \/ missingColumn(OriginLonNames) \/ missingColumn(OriginLatNames)
    \/ missingColumn(DestLonNames) \/ missingColumn(DestLatNames)
    \/ missingColumn(QtyNames) \/ missingColumn(HourNames)

\* C4: with fewer than two non-empty lines, or a header that resolves one of the
\* six columns under none of its aliases, the run ends in an error (exit code 1)
\* and writes none of the five artifacts.
C4_FatalInputWritesNothing ==
    fatalInput =>
        /\ written = {}
        /\ ~out.ready
        /\ pc \in {"start", "failed"}
        /\ pc = "failed" => (exitCode = 1 /\ error # "")

C4_Witness ==
    /\ pc = "failed" /\ error = "CSV schema mismatch"
    /\ Len(rows) >= 1 /\ missingColumn(HourNames) /\ ~missingColumn(QtyNames)

inFrame(f, h) == \E e \in Range(frameFlows(h)) : e.o = f.o /\ e.d = f.d

framesShape ==
    /\ Len(out.hourly.frames) = 24
    /\ \A h \in 0..23 : out.hourly.frames[h + 1].hour = h
    /\ \A h \in 0..23 : \A f \in Range(acc.flowMap) : inFrame(f, h) <=> f.hourly[h] > 0
    /\ \A h \in 0..23 : Len(frameFlows(h)) = Cardinality({f \in Range(acc.flowMap) : f.hourly[h] > 0})

\* C10 as stated: 24 frames in ascending hour order, a flow is in frame h iff
\* its hourly[h] > 0, and no entry of a frame has total 0.
C10_FramesNeverTotalZero ==
    ingested => (framesShape /\ \A e \in allFrameEntries : e.total > 0)

\* C10 as amended: 24 frames in ascending hour order, a flow is in frame h iff
\* its hourly[h] > 0; the written total of an entry is hourly[h] rounded to four
\* decimals, so it is 0 only for an hourly value below 0.00005.
C10_FramesOfActiveFlows ==
    ingested =>
        /\ framesShape
        /\ \A h \in 0..23 : \A f \in Range(acc.flowMap) : \A e \in Range(frameFlows(h)) :
              (e.o = f.o /\ e.d = f.d) =>
                  /\ 2 * e.total - 2 * f.hourly[h] <= QtyRound
                  /\ 2 * f.hourly[h] - 2 * e.total < QtyRound
                  /\ e.total % QtyRound = 0

C10_Witness ==
    /\ pc = "done"
    /\ \E h \in 0..23 : frameFlows(h) = <<>>
    /\ \E h \in 0..23 : \E e \in Range(frameFlows(h)) : e.total > 0
    /\ \E h \in 0..23 : \E e \in Range(frameFlows(h)) : e.total = 0

(***************************************************************************)
(* src/scene/NetRetentionPeaks.tsx: the geometry memo                      *)
(***************************************************************************)
Abs(v) == IF v < 0 THEN -v ELSE v

\* value * num / den in floating point: the nearest representable value.
scaleBy(value, num, den) ==
    IF value >= 0 THEN MathRound(value * num, den) ELSE -MathRound((-value) * num, den)

\* snap: Math.round(value / spacing) * spacing.
snap(value, spacing) == MathRound(value, spacing) * spacing

\* keyForCell: toFixed(4) of both coordinates; plane units are 1e-4, so the text
\* of a coordinate is the coordinate.
keyForCell(x, y) == <<x, y>>

\* parseCellKey: the numbers the key text reads as.
parseCellKey(key) == [x |-> key[1], y |-> key[2]]

\* Map.prototype.set on a Map kept in insertion order.
mapSet(m, key, value) ==
    IF mapFind(m, key, 1) = 0 THEN Append(m, value) ELSE [m EXCEPT ![mapFind(m, key, 1)] = value]

\* Map.prototype.delete.
mapDelete(m, key) == SelectSeq(m, LAMBDA e : e.key # key)

\* cell.net += delta on the cell at (x, y), created with net 0 when absent.
\* (addNetOverwrite: a variant that replaces the cell's net instead of adding.)
addNetOverwrite(cells, x, y, delta) ==
    mapSet(cells, keyForCell(x, y), [key |-> keyForCell(x, y), x |-> x, y |-> y, net |-> delta])
addNet(cells, x, y, delta) ==
    LET at == mapFind(cells, keyForCell(x, y), 1)
        cell == IF at = 0 THEN [key |-> keyForCell(x, y), x |-> x, y |-> y, net |-> 0]
                ELSE cells[at]
    IN mapSet(cells, keyForCell(x, y), [cell EXCEPT !.net = @ + delta])

\* The body of the loop over flows.
rawStep(cells, flow, nodes, destinations, spacing) ==
    IF flow.o \notin DOMAIN nodes \/ flow.d \notin DOMAIN destinations THEN cells
    ELSE LET origin == nodes[flow.o]
             destination == destinations[flow.d]
             afterOrigin == addNet(cells, snap(origin.x, spacing), snap(origin.y, spacing),
                                   -flow.total)
         IN addNet(afterOrigin, snap(destination.x, spacing), snap(destination.y, spacing),
                   flow.total)

RECURSIVE rawCellsFrom(_, _, _, _, _, _)
rawCellsFrom(fs, k, cells, nodes, destinations, spacing) ==
    IF k > Len(fs) THEN cells
    ELSE rawCellsFrom(fs, k + 1, rawStep(cells, fs[k], nodes, destinations, spacing),
                      nodes, destinations, spacing)

rawCellsOf(fs, nodes, destinations, spacing) ==
    rawCellsFrom(fs, 1, <<>>, nodes, destinations, spacing)

\* rawCells.get(key)?.net ?? 0 and smoothCells.get(key) ?? 0.
netAt(m, key) == IF mapFind(m, key, 1) = 0 THEN 0 ELSE m[mapFind(m, key, 1)].net

SmoothFactorPercent == 17     \* smoothFactor = 0.17
MaxFactorPercent == 12        \* the 0.12 of the smoothMaxRef update
EvictBelow == 6000            \* 0.06 in quantity units
PositiveAbove == 12000        \* 0.12 in quantity units
QtyOne == 100000              \* 1 in quantity units

\* new Set([...rawCells.keys(), ...smoothCells.keys()]) in iteration order, and
\* a variant that takes the keys of rawCells only.
allKeysOfRawOnly(raw, smooth) == [k \in 1..Len(raw) |-> raw[k].key]
allKeysOf(raw, smooth) ==
    [k \in 1..Len(raw) |-> raw[k].key]
      \o SelectSeq([k \in 1..Len(smooth) |-> smooth[k].key],
                   LAMBDA key : mapFind(raw, key, 1) = 0)

\* next = previous + (target - previous) * smoothFactor, and a variant without
\* smoothing.
smoothedNextSnap(previous, target) == target
smoothedNext(previous, target) ==
    previous + scaleBy(target - previous, SmoothFactorPercent, 100)

\* Math.abs(next) < 0.06 && target === 0, and a variant that no value meets.
evictsNothing(next, target) == Abs(next) < 0 /\ target = 0
evicts(next, target) == Abs(next) < EvictBelow /\ target = 0

\* The body of the loop over allKeys.
smoothStep(smooth, raw, key) ==
    LET target == netAt(raw, key)
        previous == netAt(smooth, key)
        next == smoothedNext(previous, target)
    IN IF evicts(next, target) THEN mapDelete(smooth, key)
       ELSE mapSet(smooth, key, [key |-> key, net |-> next])

RECURSIVE smoothFrom(_, _, _, _)
smoothFrom(keys, k, smooth, raw) ==
    IF k > Len(keys) THEN smooth
    ELSE smoothFrom(keys, k + 1, smoothStep(smooth, raw, keys[k]), raw)

smoothCellsOf(smooth, raw) == smoothFrom(allKeysOf(raw, smooth), 1, smooth, raw)

\* positiveCells: the smoothed cells above 0.12, sorted by descending net (stable).
RECURSIVE insertDescNet(_, _)
insertDescNet(sorted, c) ==
    IF sorted = <<>> THEN <<c>>
    ELSE IF Head(sorted).net >= c.net THEN <<Head(sorted)>> \o insertDescNet(Tail(sorted), c)
    ELSE <<c>> \o sorted

RECURSIVE sortDescNetFrom(_, _, _)
sortDescNetFrom(items, k, sorted) ==
    IF k > Len(items) THEN sorted
    ELSE sortDescNetFrom(items, k + 1, insertDescNet(sorted, items[k]))

positiveCellsOf(smooth, raw) ==
    LET kept == SelectSeq(smooth, LAMBDA c : c.net > PositiveAbove)
    IN sortDescNetFrom(
         [k \in 1..Len(kept) |->
            LET at == mapFind(raw, kept[k].key, 1)
                coord == IF at = 0 THEN parseCellKey(kept[k].key)
                         ELSE [x |-> raw[at].x, y |-> raw[at].y]
            IN [x |-> coord.x, y |-> coord.y, net |-> kept[k].net]],
         1, <<>>)

smoothMaxOf(previousMax, positiveCells) ==
    LET maxTarget == IF Len(positiveCells) > 0 THEN positiveCells[1].net ELSE QtyOne
    IN previousMax + scaleBy(maxTarget - previousMax, MaxFactorPercent, 100)

\* The particle loop.  normalized, stackHeight and activity are in thousandths.
maxParticles == 70000
maxLayers == 42
PartUnit == 1000
ActivityFloor == 15           \* 0.015

\* hashNumber: the fractional part of Math.sin(input * 17.123) * 14758.389.  The
\* sine is not evaluated: the value is kept as the term of its argument, which
\* is in hundredths.
hashNumber(input) == [sinOf |-> input]

\* clamp01(Math.sqrt(cell.net / maxReference)).
normalizedOf(net, maxReference) ==
    Min2(PartUnit, SqrtSearch(((net * PartUnit) \div maxReference) * PartUnit, 0, 40000))

\* stackHeight = 1.5 + normalized * 36.
stackHeightOf(normalized) == 1500 + normalized * 36

\* Math.min(maxLayers, Math.ceil(stackHeight + 1.5)).
layerCountOf(stackHeight) == Min2(maxLayers, (stackHeight + 1500 + PartUnit - 1) \div PartUnit)

\* clamp01(stackHeight - layer).
activityOf(stackHeight, layer) == Max2(0, Min2(PartUnit, stackHeight - layer * PartUnit))

\* strengths.length >= maxParticles, and a variant without the ceiling.
capReachedNever(count) == count < 0
capReached(count) == count >= maxParticles

\* seedIndex += 1, and a variant that skips a seed.
nextSeedSkipping(seedIndex) == seedIndex + 2
nextSeed(seedIndex) == seedIndex + 1

\* The four hashes of one particle, by which r1 and r2 displace it around the
\* centre of its cell, r3 lifts it and seeds it, and r4 turns its drift.
hashesOf(seedIndex) ==
    <<hashNumber(seedIndex * 73), hashNumber(seedIndex * 191),
      hashNumber(seedIndex * 337), hashNumber(seedIndex * 471)>>

\* The loop over the layers of one cell, from layer on, when count particles
\* have been pushed before: the layer, the activity and the hashes of each
\* particle the cell pushes.
RECURSIVE layersFrom(_, _, _, _, _)
layersFrom(normalized, layer, layerCount, count, seedIndex) ==
    IF layer >= layerCount \/ capReached(count) THEN <<>>
    ELSE LET activity == activityOf(stackHeightOf(normalized), layer)
         IN IF activity <= ActivityFloor
            THEN layersFrom(normalized, layer + 1, layerCount, count, seedIndex)
            ELSE <<[layer |-> layer, activity |-> activity, hashes |-> hashesOf(seedIndex)]>>
                   \o layersFrom(normalized, layer + 1, layerCount, count + 1,
                                 nextSeed(seedIndex))

\* seedIndex after a cell that pushed n particles.
RECURSIVE seedAfter(_, _)
seedAfter(seedIndex, n) == IF n = 0 THEN seedIndex ELSE seedAfter(nextSeed(seedIndex), n - 1)

\* The loop over positiveCells, over the cells k..stop.  st is the state of the
\* loop: the particles pushed so far, kept cell by cell in the order of the
\* arrays (the position, strength and drift of a particle are computed from its
\* cell, gridSize, normalized, its layer, activity and hashes), their number
\* and seedIndex.  The loop ends at the first cell after which maxParticles
\* particles have been pushed.
RECURSIVE particlesFrom(_, _, _, _, _, _)
particlesFrom(cells, k, stop, spacing, maxReference, st) ==
    IF k > stop \/ capReached(st.count) THEN st
    ELSE LET normalized == normalizedOf(cells[k].net, maxReference)
             stack == layersFrom(normalized, 0, layerCountOf(stackHeightOf(normalized)),
                                 st.count, st.seedIndex)
             pushed == [x |-> cells[k].x, y |-> cells[k].y, gridSize |-> spacing,
                        strength |-> normalized,
                        layers |-> [j \in 1..Len(stack) |-> stack[j].layer],
                        activities |-> [j \in 1..Len(stack) |-> stack[j].activity],
                        hashes |-> [j \in 1..Len(stack) |-> stack[j].hashes]]
         IN particlesFrom(cells, k + 1, stop, spacing, maxReference,
                          [runs |-> IF stack = <<>> THEN st.runs ELSE Append(st.runs, pushed),
                           count |-> st.count + Len(stack),
                           seedIndex |-> seedAfter(st.seedIndex, Len(stack))])

\* The same loop taken fifty cells at a time, which bounds the depth of the
\* evaluation on long lists of cells.
RECURSIVE particlesInBlocks(_, _, _, _, _)
particlesInBlocks(cells, k, spacing, maxReference, st) ==
    IF k > Len(cells) \/ capReached(st.count) THEN st
    ELSE particlesInBlocks(cells, k + 50, spacing, maxReference,
                           particlesFrom(cells, k, Min2(k + 49, Len(cells)), spacing,
                                         maxReference, st))

\* let seedIndex = 1, then the loop.
particlesOf(cells, spacing, maxReference) ==
    particlesInBlocks(cells, 1, spacing, maxReference,
                      [runs |-> <<>>, count |-> 0, seedIndex |-> 1]).runs

\* The dataset the component is mounted with (nodesById, destinationsById), in
\* 1e-4 plane units, and the flow lists it is rendered with.
nodesById ==
    (<<"n", 0>> :> [x |-> -1100000, y |-> 0]) @@
    (<<"n", 1>> :> [x |-> -1082000, y |-> 4000])

destinationsById ==
    (<<"d", 0>> :> [x |-> 1100000, y |-> 0]) @@
    (<<"d", 1>> :> [x |-> -1100000, y |-> 0])

FlowA == [o |-> <<"n", 0>>, d |-> <<"d", 0>>, total |-> 100000]
FlowB == [o |-> <<"n", 1>>, d |-> <<"d", 0>>, total |-> 250000]
FlowC == [o |-> <<"n", 0>>, d |-> <<"d", 1>>, total |-> 150000]    \* one cell at both ends
FlowD == [o |-> <<"n", 7>>, d |-> <<"d", 0>>, total |-> 50000]     \* origin not in nodesById
FlowE == [o |-> <<"n", 1>>, d |-> <<"d", 1>>, total |-> 5000]      \* 0.05

FlowLists == { <<>>, <<FlowB, FlowA>>, <<FlowC, FlowA, FlowD, FlowE>> }
GridSizes == { 10000, 100000 }     \* the slider runs from 1 to 10

DayMixes == { 0, 100 }             \* the dayMix prop, in percent
NoUniforms == [uTime |-> 0, uDayMix |-> 0, uGlobalAlpha |-> 100]

GridInit ==
    /\ flows = <<>>
    /\ gridSize = 30000              \* useState(3) in App
    /\ smoothNet = <<>>
    /\ smoothMax = QtyOne            \* useRef(1)
    /\ rawCells = <<>>
    /\ calls = 0
    /\ changes = 0
    /\ prior = [smoothNet |-> <<>>, smoothMax |-> QtyOne]
    /\ geometry = <<>>
    /\ uniforms = NoUniforms         \* createPeakParticleMaterial()

\* A render of NetRetentionPeaks in which a dependency of the geometry memo has a
\* new identity: the memo body runs once, with the props fs and spacing.
Rendered(fs, spacing) ==
    /\ LET same == (fs = flows /\ spacing = gridSize)
       IN /\ IF same THEN calls < MaxCalls /\ calls > 0
                     ELSE calls <= MaxSettle /\ changes < MaxChanges + 1
          /\ calls' = IF same THEN calls + 1 ELSE 1
          /\ changes' = IF same THEN changes ELSE changes + 1
    /\ flows' = fs
    /\ gridSize' = spacing

\* The memo body run by that render.
Aggregate(fs, spacing) ==
    /\ Rendered(fs, spacing)
    /\ prior' = [smoothNet |-> smoothNet, smoothMax |-> smoothMax]
    /\ LET raw == rawCellsOf(fs, nodesById, destinationsById, spacing)
           smooth == smoothCellsOf(smoothNet, raw)
           positiveCells == positiveCellsOf(smooth, raw)
           nextMax == smoothMaxOf(smoothMax, positiveCells)
       IN /\ rawCells' = raw
          /\ smoothNet' = smooth
          /\ smoothMax' = nextMax
          /\ geometry' = particlesOf(positiveCells, spacing, Max2(QtyOne, nextMax))
    /\ UNCHANGED uniforms
    /\ UNCHANGED <<pipeVars, appVars, loopVars, csvVars, hourVars, ribbonVars, maskVars, shownVars>>

\* The useFrame callback, once per rendered frame: it writes the three uniforms
\* of the material and nothing else.
Tick(dayMix) ==
    /\ uniforms.uTime < MaxTicks
    /\ uniforms' = [uTime |-> uniforms.uTime + 1, uDayMix |-> dayMix, uGlobalAlpha |-> 100]
    /\ UNCHANGED <<flows, gridSize, smoothNet, smoothMax, rawCells, calls, changes, prior,
                   geometry>>
    /\ UNCHANGED <<pipeVars, appVars, loopVars, csvVars, hourVars, ribbonVars, maskVars, shownVars>>

GridNext ==
    \/ \E fs \in FlowLists, spacing \in GridSizes : Aggregate(fs, spacing)
    \/ \E dayMix \in DayMixes : Tick(dayMix)

(***************************************************************************)
(* src/App.tsx: the dataset, the hourly interpolation, the baseFlows memo  *)
(***************************************************************************)
HourDiv == 4              \* hourPosition is counted in quarter hours

\* The JSON text of a number read back: quantities stay in 1e-5 units, the 6-decimal
\* fractions become rationals.  NaN is written as null; it is kept as 0 / 0.
parseFlow(f) ==
    [o |-> f.o, d |-> f.d, total |-> <<f.total, 1>>,
     bins |-> <<<<f.bins[1], 1>>, <<f.bins[2], 1>>, <<f.bins[3], 1>>, <<f.bins[4], 1>>>>,
     cuts |-> <<<<f.cuts[1], Micro>>, <<f.cuts[2], Micro>>, <<f.cuts[3], Micro>>>>,
     w |-> IF f.w = NaN THEN <<0, 0>> ELSE <<f.w, Micro>>]

parseFlows(fs) == [k \in 1..Len(fs) |-> parseFlow(fs[k])]

\* hourly.defined is FALSE for data null and for hourly undefined.
NoHourly == [hours |-> <<>>, frames |-> <<>>, defined |-> FALSE]

NoData == [loaded |-> FALSE, flows |-> <<>>, hourly |-> NoHourly]

\* The files loadODData awaits together; flows-hourly.json is fetched after them.
RequiredFiles == {"meta.json", "nodes.json", "destinations.json", "flows.json"}

\* The failures that reject loadODData, given the files whose fetch throws: those
\* of the Promise.all, not the one caught.  (rejectingAll: a variant in which
\* no failure is caught.)
rejectingAll(failed) == failed
rejecting(failed) == failed \cap RequiredFiles

\* What loadODData resolves with, given the artifacts o and the files whose
\* fetch throws: the catch around flows-hourly.json leaves hourly undefined.
loadedData(o, failed) ==
    [loaded |-> TRUE, flows |-> parseFlows(o.flows),
     hourly |-> IF "flows-hourly.json" \in failed THEN NoHourly
                ELSE [hours |-> o.hourly.hours,
                      frames |-> [k \in 1..Len(o.hourly.frames) |->
                                    [hour |-> o.hourly.frames[k].hour,
                                     flows |-> parseFlows(o.hourly.frames[k].flows)]],
                      defined |-> TRUE]]

flowKey(flow) == <<flow.o, flow.d>>

\* normalizeSqrt of App.tsx (clamps), on values over one common denominator.
normalizeSqrtApp(value, minValue, maxValue) ==
    IF maxValue <= minValue THEN <<1, 1>>
    ELSE clamp01(<<Sqrt(value) - Sqrt(minValue), Sqrt(maxValue) - Sqrt(minValue)>>)

RatClamp099(p) == clamp01(RatMin(p, <<99, 100>>))

\* cutsFromBins of App.tsx: the fractions, unrounded; values over one denominator.
cutsFromBins(values) ==
    LET total == values[1][1] + values[2][1] + values[3][1] + values[4][1]
    IN IF total <= 0 THEN <<<<1, 4>>, <<1, 2>>, <<3, 4>>>>
       ELSE <<clamp01(<<values[1][1], total>>),
              clamp01(<<values[1][1] + values[2][1], total>>),
              RatClamp099(<<values[1][1] + values[2][1] + values[3][1], total>>)>>

\* ((value % 24) + 24) % 24 with JavaScript's remainder, in quarter hours.
jsRem(a, n) == IF a >= 0 THEN a % n ELSE -((-a) % n)
normalizeHour(position) == jsRem(jsRem(position, 24 * HourDiv) + 24 * HourDiv, 24 * HourDiv)

\* The hourlyFrameMaps memo: hour -> (flow key -> flow), in insertion order.
RECURSIVE frameMapFrom(_, _, _)
frameMapFrom(fs, k, m) ==
    IF k > Len(fs) THEN m
    ELSE frameMapFrom(fs, k + 1, mapSet(m, flowKey(fs[k]), [key |-> flowKey(fs[k]), flow |-> fs[k]]))

frameMapAt(frames, hour) ==
    LET found == SelectSeq(frames, LAMBDA fr : fr.hour = hour)
    IN IF found = <<>> THEN <<>> ELSE frameMapFrom(found[Len(found)].flows, 1, <<>>)

ZeroBins == <<<<0, 1>>, <<0, 1>>, <<0, 1>>, <<0, 1>>>>
GhostTotal == 10          \* 1e-4 in quantity units: the cut-off of merged flows

\* a * (1 - blend) + b * blend for a, b of denominator 1 and blend = bn / bd.
\* (blendOfSwapped: a variant with the two weights exchanged.)
blendOfSwapped(a, b, bn, bd) == <<a[1] * bn + b[1] * (bd - bn), bd>>
blendOf(a, b, bn, bd) == <<a[1] * (bd - bn) + b[1] * bn, bd>>

\* lowerHour = Math.floor(normalizedHour).
lowerHourOf(position) == normalizeHour(position) \div HourDiv

\* upperHour = (lowerHour + 1) % 24, and a variant that does not wrap.
upperHourUnwrapped(position) == lowerHourOf(position) + 1
upperHourOf(position) == (lowerHourOf(position) + 1) % 24

\* blend = normalizedHour - lowerHour, in quarter hours.
blendQuarters(position) == normalizeHour(position) - lowerHourOf(position) * HourDiv

\* interpolateHourlyFlows(frameMaps, hourPosition)
interpolateHourlyFlows(frames, position) ==
    LET lowerHour == lowerHourOf(position)
        upperHour == upperHourOf(position)
        blendQ == blendQuarters(position)
        bn == IF blendQ = 0 THEN 0 ELSE IF 2 * blendQ = HourDiv THEN 1 ELSE blendQ
        bd == IF blendQ = 0 THEN 1 ELSE IF 2 * blendQ = HourDiv THEN 2 ELSE HourDiv
        lower == frameMapAt(frames, lowerHour)
        upper == frameMapAt(frames, upperHour)
        keys == allKeysOf(lower, upper)
        mergedAll ==
            [k \in 1..Len(keys) |->
                LET fromAt == mapFind(lower, keys[k], 1)
                    toAt == mapFind(upper, keys[k], 1)
                    fromBins == IF fromAt = 0 THEN ZeroBins ELSE lower[fromAt].flow.bins
                    toBins == IF toAt = 0 THEN ZeroBins ELSE upper[toAt].flow.bins
                    fromTotal == IF fromAt = 0 THEN <<0, 1>> ELSE lower[fromAt].flow.total
                    toTotal == IF toAt = 0 THEN <<0, 1>> ELSE upper[toAt].flow.total
                    bins == [j \in 1..4 |-> blendOf(fromBins[j], toBins[j], bn, bd)]
                IN [o |-> keys[k][1], d |-> keys[k][2],
                    total |-> blendOf(fromTotal, toTotal, bn, bd),
                    bins |-> bins, cuts |-> cutsFromBins(bins), w |-> <<0, 1>>]]
        merged == SelectSeq(mergedAll, LAMBDA f : ~(f.total[1] <= GhostTotal * f.total[2]))
        totals == [k \in 1..Len(merged) |-> merged[k].total[1]]
        minTotal == seqMin(totals, 1)
        maxTotal == seqMax(totals, 1)
    IN IF Len(merged) = 0 THEN merged
       ELSE sortDescRat([k \in 1..Len(merged) |->
              [merged[k] EXCEPT !.w = normalizeSqrtApp(merged[k].total[1], minTotal, maxTotal)]])

\* Boolean(data?.hourly?.frames.length)
hourlyAvailable(dt) == dt.hourly.defined /\ Len(dt.hourly.frames) > 0

\* The effect on [hourlyAvailable, mode]: hourly mode without hourly frames is
\* set back to aggregated.
settledMode(md, dt) == IF md = "hourly" /\ ~hourlyAvailable(dt) THEN "aggregated" ELSE md

\* The baseFlows memo; hourlyFrameMaps is null when data.hourly is undefined.
baseFlowsOf(dt, md, position) ==
    IF ~dt.loaded THEN <<>>
    ELSE IF md = "hourly" /\ dt.hourly.defined
    THEN interpolateHourlyFlows(dt.hourly.frames, position)
    ELSE dt.flows

AppInit ==
    /\ data = NoData
    /\ mode = "aggregated"
    /\ hourPosition = 0
    /\ baseFlows = <<>>
    /\ playing = FALSE
    /\ appError = ""
    /\ fetchFailed = {}

\* loadODData settles, the fetches of the files in failed having thrown: it
\* rejects with the error of a required file, or resolves with the artifacts the
\* pipeline wrote.
LoadData(failed) ==
    /\ ~data.loaded
    /\ appError = ""
    /\ pc = "done"
    /\ fetchFailed' = failed
    /\ IF rejecting(failed) # {}
       THEN /\ appError' \in rejecting(failed)
            /\ UNCHANGED <<data, hourPosition, baseFlows, mode>>
       ELSE /\ data' = loadedData(out, failed)
            /\ hourPosition' = (IF Len(data'.hourly.hours) > 0
                                THEN data'.hourly.hours[1] ELSE 0) * HourDiv
            /\ mode' = settledMode(mode, data')
            /\ baseFlows' = baseFlowsOf(data', mode', hourPosition')
            /\ UNCHANGED appError
    /\ UNCHANGED playing
    /\ UNCHANGED <<pipeVars, gridVars, loopVars, csvVars, hourVars, ribbonVars, maskVars, shownVars>>

\* The Aggregated / Hourly buttons (Hourly is disabled without hourly frames).
SetMode(md) ==
    /\ data.loaded
    /\ md = "hourly" => hourlyAvailable(data)
    /\ mode' = settledMode(md, data)
    /\ baseFlows' = baseFlowsOf(data, mode', hourPosition)
    /\ UNCHANGED <<data, hourPosition, playing, appError, fetchFailed>>
    /\ UNCHANGED <<pipeVars, gridVars, loopVars, csvVars, hourVars, ribbonVars, maskVars, shownVars>>

\* The hour slider, shown in hourly mode: 0 to 23.95.  It is moved by a quarter of
\* an hour or by an hour at a time; every position is reached by such moves.
SliderMoves(position) ==
    {position - 1, position + 1, position - HourDiv, position + HourDiv}
        \cap (0..(24 * HourDiv - 1))

SetHourPosition(position) ==
    /\ data.loaded
    /\ mode = "hourly"
    /\ position \in SliderMoves(hourPosition)
    /\ hourPosition' = position
    /\ baseFlows' = baseFlowsOf(data, mode, position)
    /\ UNCHANGED <<data, mode, playing, appError, fetchFailed>>
    /\ UNCHANGED <<pipeVars, gridVars, loopVars, csvVars, hourVars, ribbonVars, maskVars, shownVars>>

\* The Play / Pause button, shown in hourly mode.
TogglePlaying ==
    /\ data.loaded
    /\ mode = "hourly"
    /\ playing' = ~playing
    /\ UNCHANGED <<data, mode, hourPosition, baseFlows, appError, fetchFailed>>
    /\ UNCHANGED <<pipeVars, gridVars, loopVars, csvVars, hourVars, ribbonVars, maskVars, shownVars>>

\* next >= 24 ? next - 24 : next.
wrapPlayed(next) == IF next >= 24 * HourDiv THEN next - 24 * HourDiv ELSE next

\* Time between two animation frames, as the hours it plays (0.2 hours per
\* second), in quarter hours: none, 1.25 s, 5 s, and 125 s (25 hours), as after
\* the page was in the background.
ElapsedHours == {0, 1, HourDiv, 25 * HourDiv}

\* One animation frame of the playback effect, which runs while the mode is
\* hourly, playing is set and there are at least two hours.
PlaybackTick(elapsed) ==
    /\ data.loaded
    /\ mode = "hourly"
    /\ playing
    /\ Len(data.hourly.hours) >= 2
    /\ hourPosition < MaxPosition
    /\ hourPosition' = wrapPlayed(hourPosition + elapsed)
    /\ baseFlows' = baseFlowsOf(data, mode, hourPosition')
    /\ UNCHANGED <<data, mode, playing, appError, fetchFailed>>
    /\ UNCHANGED <<pipeVars, gridVars, loopVars, csvVars, hourVars, ribbonVars, maskVars, shownVars>>

AppNext ==
    \/ \E failed \in SUBSET Files : LoadData(failed)
    \/ \E md \in {"aggregated", "hourly"} : SetMode(md)
    \/ \E position \in 0..(24 * HourDiv - 1) : SetHourPosition(position)
    \/ TogglePlaying
    \/ \E elapsed \in ElapsedHours : PlaybackTick(elapsed)

RECURSIVE ingestFrom(_, _, _, _)
ingestFrom(a, rs, k, c) ==
    IF k > Len(rs) THEN a ELSE ingestFrom(ingestRow(a, rs[k], c), rs, k + 1, c)

\* The pipeline has run to its end on some input file.
PipeDone ==
    /\ header = HeaderEn
    /\ rows \in RowSeqs(MaxAppRows) \ {<<>>}
    /\ pc = "done"
    /\ i = Len(rows) + 1
    /\ cols = resolveColumns(header)
    /\ acc = ingestFrom(EmptyAcc, rows, 1, cols)
    /\ out = derive(acc, 1)
    /\ written = Files
    /\ exitCode = 0
    /\ error = ""
    /\ run = 1
    /\ prevOut = NoOut

\* The script run on an input file; the viewer is not started.
(***************************************************************************)
(* The particle loop on its own: any positiveCells, gridSize, maxReference *)
(***************************************************************************)
ManyCells == 1843     \* cells enough to push more than maxParticles particles
NetLevels == { 13000, 50000, 100000, 250000, 400000 }

\* positiveCells is sorted by descending net and holds nets above 0.12 only.
ShortCellLists ==
    { <<>> } \cup { <<[x |-> 0, y |-> 0, net |-> n]>> : n \in NetLevels }
      \cup { <<[x |-> 0, y |-> 0, net |-> p[1]], [x |-> 10000, y |-> -10000, net |-> p[2]]>> :
                p \in { q \in NetLevels \X NetLevels : q[1] >= q[2] } }

LongCellLists ==
    { [k \in 1..ManyCells |-> [x |-> k * 10000, y |-> 0, net |-> n]] : n \in { 13000, 400000 } }

LoopInit ==
    /\ loopPc = "ready"
    /\ built = <<>>
    /\ \/ /\ cellsArg \in ShortCellLists
          /\ sizeArg \in GridSizes
          /\ maxArg \in { QtyOne, 180000, 250000 }      \* Math.max(1, ...) is 1 at least
       \/ /\ cellsArg \in LongCellLists
          /\ sizeArg = 10000
          /\ maxArg = QtyOne

\* The specifications of the other parts leave the loop alone.
LoopIdle ==
    /\ loopPc = "built"
    /\ built = <<>>
    /\ cellsArg = <<>>
    /\ sizeArg = 30000
    /\ maxArg = QtyOne

BuildParticles ==
    /\ loopPc = "ready"
    /\ loopPc' = "built"
    /\ built' = particlesOf(cellsArg, sizeArg, maxArg)
    /\ UNCHANGED <<cellsArg, sizeArg, maxArg>>
    /\ UNCHANGED <<pipeVars, gridVars, appVars, csvVars, hourVars, ribbonVars, maskVars, shownVars>>

LoopNext == BuildParticles

(***************************************************************************)
(* scripts/prepare-data.mjs: parseCsvLine                                  *)
(***************************************************************************)
MaxFields == 2        \* fields of a line
MaxFieldLen == 2      \* characters of a field

Quote == "\""
Comma == ","
Alphabet == { "a", Comma, Quote }

\* char === "," && !insideQuote, and a variant that splits at every comma.
splitsAtEveryComma(char, insideQuote) == char = Comma
splitsHere(char, insideQuote) == char = Comma /\ ~insideQuote

\* The loop over the characters of the line, from character k on (k is i + 1).
RECURSIVE parseFrom(_, _, _, _, _)
parseFrom(chars, k, parsed, current, insideQuote) ==
    IF k > Len(chars) THEN Append(parsed, current)
    ELSE IF chars[k] = Quote
         THEN IF insideQuote /\ k + 1 <= Len(chars) /\ chars[k + 1] = Quote
              THEN parseFrom(chars, k + 2, parsed, Append(current, Quote), insideQuote)
              ELSE parseFrom(chars, k + 1, parsed, current, ~insideQuote)
    ELSE IF splitsHere(chars[k], insideQuote)
         THEN parseFrom(chars, k + 1, Append(parsed, current), <<>>, insideQuote)
    ELSE parseFrom(chars, k + 1, parsed, Append(current, chars[k]), insideQuote)

parseCsvLine(chars) == parseFrom(chars, 1, <<>>, <<>>, FALSE)

\* The writer's side of a line: a field goes between quotes with every quote
\* in it doubled, and the fields are joined with commas.
RECURSIVE doubled(_)
doubled(field) ==
    IF field = <<>> THEN <<>>
    ELSE (IF Head(field) = Quote THEN <<Quote, Quote>> ELSE <<Head(field)>>)
           \o doubled(Tail(field))

encodeField(field) == <<Quote>> \o doubled(field) \o <<Quote>>

RECURSIVE encodeLine(_)
encodeLine(fs) ==
    IF fs = <<>> THEN <<>>
    ELSE IF Len(fs) = 1 THEN encodeField(fs[1])
    ELSE encodeField(fs[1]) \o <<Comma>> \o encodeLine(Tail(fs))

FieldTexts == UNION { [1..n -> Alphabet] : n \in 0..MaxFieldLen }
FieldLists == UNION { [1..n -> FieldTexts] : n \in 0..MaxFields }

CsvInit ==
    /\ csvPc = "ready"
    /\ csvFields \in FieldLists
    /\ csvLine = encodeLine(csvFields)
    /\ csvCells = <<>>

\* The specifications of the other parts leave parseCsvLine alone.
CsvIdle ==
    /\ csvPc = "parsed"
    /\ csvFields = <<>>
    /\ csvLine = <<>>
    /\ csvCells = <<>>

ParseLine ==
    /\ csvPc = "ready"
    /\ csvPc' = "parsed"
    /\ csvCells' = parseCsvLine(csvLine)
    /\ UNCHANGED <<csvFields, csvLine>>
    /\ UNCHANGED <<pipeVars, gridVars, appVars, loopVars, hourVars, ribbonVars, maskVars, shownVars>>

CsvNext == ParseLine

(***************************************************************************)
(* src/App.tsx: interpolateHourlyFlows on any hourPosition                 *)
(***************************************************************************)
MaxHours == 50        \* hourPosition runs from -MaxHours to MaxHours hours

\* Frames to interpolate between: one flow at 23 h, another at 0 h, both at 1 h,
\* and a flow of 0.0003 at 2 h.
SampleFlow(o, total) ==
    [o |-> <<"n", o>>, d |-> <<"d", 0>>, total |-> <<total, 1>>,
     bins |-> <<<<0, 1>>, <<total, 1>>, <<0, 1>>, <<0, 1>>>>,
     cuts |-> <<<<0, 1>>, <<1, 1>>, <<99, 100>>>>, w |-> <<1, 1>>]

SampleFrames ==
    [h \in 1..24 |->
       [hour |-> h - 1,
        flows |-> IF h - 1 = 23 THEN <<SampleFlow(0, 400000)>>
                  ELSE IF h - 1 = 0 THEN <<SampleFlow(1, 800000)>>
                  ELSE IF h - 1 = 1 THEN <<SampleFlow(0, 200000), SampleFlow(1, 200000)>>
                  ELSE IF h - 1 = 2 THEN <<SampleFlow(2, 30)>>
                  ELSE <<>>]]

HourInit ==
    /\ hourPc = "ready"
    /\ hourArg \in (-MaxHours * HourDiv)..(MaxHours * HourDiv)
    /\ hourOut = [lowerHour |-> 0, upperHour |-> 0, blend |-> 0, flows |-> <<>>]

\* The specifications of the other parts leave it alone.
HourIdle ==
    /\ hourPc = "done"
    /\ hourArg = 0
    /\ hourOut = [lowerHour |-> 0, upperHour |-> 0, blend |-> 0, flows |-> <<>>]

Interpolate ==
    /\ hourPc = "ready"
    /\ hourPc' = "done"
    /\ hourOut' = [lowerHour |-> lowerHourOf(hourArg),
                   upperHour |-> upperHourOf(hourArg),
                   blend |-> blendQuarters(hourArg),
                   flows |-> interpolateHourlyFlows(SampleFrames, hourArg)]
    /\ UNCHANGED hourArg
    /\ UNCHANGED <<pipeVars, gridVars, appVars, loopVars, csvVars, ribbonVars, maskVars, shownVars>>

HourNext == Interpolate

(***************************************************************************)
(* buildFlowRibbonGeometry on its own                                      *)
(***************************************************************************)
MaxSamples == 50    \* the largest sample count asked for
SampleUnit == 2     \* sample counts are in halves

NoOption == -1000000001    \* options.samples absent

minSamples == 24
maxSamples == 40
defaultSamples == 30

\* Math.min and Math.max: NaN when an argument is NaN.
mathMin(a, b) == IF a = NaN \/ b = NaN THEN NaN ELSE Min2(a, b)
mathMax(a, b) == IF a = NaN \/ b = NaN THEN NaN ELSE Max2(a, b)

\* Math.max(24, Math.min(40, options.samples ?? 30)), in halves.
clampSamples(requested) ==
    mathMax(minSamples * SampleUnit,
            mathMin(maxSamples * SampleUnit,
                    IF requested = NoOption THEN defaultSamples * SampleUnit ELSE requested))

\* How often the body of  for (let i = 0; i < limit; i += 1)  runs, limit in
\* halves: the comparison with NaN is false.
loopRuns(limit) ==
    IF limit = NaN THEN 0
    ELSE Cardinality({ step \in 0..(maxSamples + 1) : step * SampleUnit < limit })

\* The six indices pushed for sample i: i0, i2, i1, i2, i3, i1.
stripOffsets == <<0, 2, 1, 2, 3, 1>>

\* What the attributes aU and aSide and the index of the geometry hold: two
\* vertices per sample, both with u = i / (samples - 1), then six indices per
\* sample but the last.
buildFlowRibbonGeometry(requested) ==
    LET samples == clampSamples(requested)
    IN [samples |-> samples,
        us      |-> [v \in 1..(2 * loopRuns(samples)) |->
                        <<((v - 1) \div 2) * SampleUnit, samples - SampleUnit>>],
        sides   |-> [v \in 1..(2 * loopRuns(samples)) |-> IF v % 2 = 1 THEN -1 ELSE 1],
        indices |-> [j \in 1..(6 * loopRuns(IF samples = NaN THEN NaN
                                             ELSE samples - SampleUnit)) |->
                        ((j - 1) \div 6) * 2 + stripOffsets[((j - 1) % 6) + 1]]]

RibbonRequests ==
    {NoOption, NaN, PosInf, NegInf} \cup (-4..(MaxSamples * SampleUnit))

NoRibbon == [samples |-> 0, us |-> <<>>, sides |-> <<>>, indices |-> <<>>]

RibbonInit ==
    /\ ribbonPc = "ready"
    /\ samplesArg \in RibbonRequests
    /\ ribbon = NoRibbon

\* The specifications of the other parts leave it alone.
RibbonIdle ==
    /\ ribbonPc = "built"
    /\ samplesArg = NoOption
    /\ ribbon = NoRibbon

BuildRibbon ==
    /\ ribbonPc = "ready"
    /\ ribbonPc' = "built"
    /\ ribbon' = buildFlowRibbonGeometry(samplesArg)
    /\ UNCHANGED samplesArg
    /\ UNCHANGED <<pipeVars, gridVars, appVars, loopVars, csvVars, hourVars, maskVars, shownVars>>

RibbonNext == BuildRibbon

(***************************************************************************)
(* src/scene/FlowCanvas.tsx: loading the alpha mask while mounted          *)
(***************************************************************************)
MaxMounts == 3      \* how often a FlowCanvas is mounted

\* What loadStrokeAlphaMaskTexture settles with: the texture of the file, the
\* canvas texture made when the file fails to load, or a rejection when the
\* canvas has no 2d context.
LoadOutcomes == {"file", "canvas", "rejected"}

\* The closure of one run of the effect (disposed, texture), the state of its
\* load, whether its FlowCanvas is mounted, and what happened to the texture
\* the load produced: how often it was disposed, and whether setAlphaMask was
\* called with it after the unmount.  Texture k is the one of run k.
NewEffect ==
    [mounted |-> TRUE, disposed |-> FALSE, texture |-> 0, load |-> "pending",
     disposals |-> 0, lateSet |-> FALSE]

MaskInit ==
    /\ effects = <<>>
    /\ alphaMask = 0

\* if (disposed): what the then callback reads, and a variant that never sees
\* the flag set.
seesDisposedNever(e) == e.disposed /\ ~e.mounted /\ e.mounted
seesDisposed(e) == e.disposed

\* FlowCanvas is mounted: the effect runs and starts the load.
Mount ==
    /\ Len(effects) < MaxMounts
    /\ \A k \in 1..Len(effects) : ~effects[k].mounted
    /\ effects' = Append(effects, NewEffect)
    /\ alphaMask' = 0
    /\ UNCHANGED <<pipeVars, gridVars, appVars, loopVars, csvVars, hourVars, ribbonVars, shownVars>>

\* FlowCanvas is unmounted: the cleanup of the effect.
Unmount(k) ==
    /\ k \in 1..Len(effects)
    /\ effects[k].mounted
    /\ effects' = [effects EXCEPT ![k] =
                      [@ EXCEPT !.mounted = FALSE,
                                !.disposed = TRUE,
                                !.disposals = IF effects[k].texture # 0 THEN @ + 1 ELSE @]]
    /\ UNCHANGED alphaMask
    /\ UNCHANGED <<pipeVars, gridVars, appVars, loopVars, csvVars, hourVars, ribbonVars, shownVars>>

\* The load of run k settles; on fulfilment the then callback runs.
LoadSettles(k, outcome) ==
    /\ k \in 1..Len(effects)
    /\ effects[k].load = "pending"
    /\ IF outcome = "rejected"
       THEN /\ effects' = [effects EXCEPT ![k] = [@ EXCEPT !.load = outcome]]
            /\ UNCHANGED alphaMask
       ELSE IF seesDisposed(effects[k])
       THEN /\ effects' = [effects EXCEPT ![k] =
                              [@ EXCEPT !.load = outcome, !.disposals = @ + 1]]
            /\ UNCHANGED alphaMask
       ELSE /\ effects' = [effects EXCEPT ![k] =
                              [@ EXCEPT !.load = outcome, !.texture = k,
                                        !.lateSet = ~effects[k].mounted]]
            /\ alphaMask' = IF effects[k].mounted THEN k ELSE alphaMask
    /\ UNCHANGED <<pipeVars, gridVars, appVars, loopVars, csvVars, hourVars, ribbonVars, shownVars>>

MaskNext ==
    \/ Mount
    \/ \E k \in 1..MaxMounts : Unmount(k)
    \/ \E k \in 1..MaxMounts, outcome \in LoadOutcomes : LoadSettles(k, outcome)

(***************************************************************************)
(* src/App.tsx: threshold, filteredFlows and visibleFlows                  *)
(***************************************************************************)
MAX_RENDERED_FLOWS == 1800

\* A list of flows is kept as runs: count consecutive flows of one total.
FlowRun(count, total) == [count |-> count, total |-> total]

RunCounts == {1, 900, MAX_RENDERED_FLOWS}
RunTotals == {1, 2, 3}

\* The lists baseFlows takes: none, one run, two runs, and two runs after one
\* flow of the least total.
ActiveLists ==
    { <<>> } \cup { <<FlowRun(c, t)>> : c \in RunCounts, t \in RunTotals }
      \cup { <<FlowRun(p[1], p[2]), FlowRun(p[3], p[4])>> :
                p \in RunCounts \X RunTotals \X RunCounts \X RunTotals }
      \cup { <<FlowRun(1, 1), FlowRun(p[1], p[2]), FlowRun(p[3], p[4])>> :
                p \in RunCounts \X RunTotals \X RunCounts \X RunTotals }

RECURSIVE lengthOf(_)
lengthOf(runs) == IF runs = <<>> THEN 0 ELSE Head(runs).count + lengthOf(Tail(runs))

\* baseFlows.reduce((maxValue, flow) => Math.max(maxValue, flow.total), 0)
RECURSIVE maxTotalOf(_)
maxTotalOf(runs) ==
    IF runs = <<>> THEN 0 ELSE Max2(Head(runs).total, maxTotalOf(Tail(runs)))

\* baseFlows.filter((flow) => flow.total >= threshold)
filterFlows(runs, least) == SelectSeq(runs, LAMBDA r : r.total >= least)

\* .sort((a, b) => b.total - a.total) and .sort((a, b) => a - b): stable.
RECURSIVE insertRun(_, _, _)
insertRun(sorted, r, descending) ==
    IF sorted = <<>> THEN <<r>>
    ELSE IF (IF descending THEN Head(sorted).total >= r.total ELSE Head(sorted).total <= r.total)
    THEN <<Head(sorted)>> \o insertRun(Tail(sorted), r, descending)
    ELSE <<r>> \o sorted

RECURSIVE sortRuns(_, _)
sortRuns(runs, descending) ==
    IF runs = <<>> THEN <<>>
    ELSE insertRun(sortRuns(SubSeq(runs, 1, Len(runs) - 1), descending),
                   runs[Len(runs)], descending)

\* .slice(0, limit), and a variant that keeps everything.
RECURSIVE sliceAll(_, _)
sliceAll(runs, limit) ==
    IF runs = <<>> \/ limit < 0 THEN <<>>
    ELSE <<Head(runs)>> \o sliceAll(Tail(runs), limit - Head(runs).count)

RECURSIVE slice(_, _)
slice(runs, limit) ==
    IF runs = <<>> \/ limit <= 0 THEN <<>>
    ELSE IF Head(runs).count >= limit THEN <<FlowRun(limit, Head(runs).total)>>
    ELSE <<Head(runs)>> \o slice(Tail(runs), limit - Head(runs).count)

\* The filteredFlows and visibleFlows memos.
filteredFlowsOf(runs, least) == sortRuns(filterFlows(runs, least), TRUE)
visibleFlowsOf(runs, least) == slice(filteredFlowsOf(runs, least), MAX_RENDERED_FLOWS)

\* sortedTotals[Math.floor(sortedTotals.length * 0.9)] ?? 0
RECURSIVE totalAt(_, _)
totalAt(runs, index) ==
    IF runs = <<>> THEN 0
    ELSE IF index < Head(runs).count THEN Head(runs).total
    ELSE totalAt(Tail(runs), index - Head(runs).count)

defaultThreshold(runs) == totalAt(sortRuns(runs, FALSE), (lengthOf(runs) * 9) \div 10)

\* The effect on [maxTotal]: setThreshold((previous) => Math.min(previous, maxTotal)).
clampedThreshold(previous, before, after) ==
    IF maxTotalOf(after) # maxTotalOf(before) THEN Min2(previous, maxTotalOf(after))
    ELSE previous

ShownInit ==
    /\ activeFlows = <<>>
    /\ threshold = 0
    /\ visibleFlows = <<>>

\* loadODData resolves: setData and setThreshold in one update, then the effect.
LoadFlows(runs) ==
    /\ activeFlows = <<>>
    /\ activeFlows' = runs
    /\ threshold' = clampedThreshold(defaultThreshold(runs), activeFlows, runs)
    /\ visibleFlows' = visibleFlowsOf(runs, threshold')
    /\ UNCHANGED <<pipeVars, gridVars, appVars, loopVars, csvVars, hourVars, ribbonVars, maskVars>>

\* The Min total slider: from 0 to maxTotal.
SetThreshold(least) ==
    /\ least \in 0..maxTotalOf(activeFlows)
    /\ least # threshold
    /\ threshold' = least
    /\ visibleFlows' = visibleFlowsOf(activeFlows, least)
    /\ UNCHANGED activeFlows
    /\ UNCHANGED <<pipeVars, gridVars, appVars, loopVars, csvVars, hourVars, ribbonVars, maskVars>>

\* baseFlows changes (the mode or the hour changed), then the effect.
ChangeFlows(runs) ==
    /\ activeFlows # <<>>
    /\ runs # activeFlows
    /\ activeFlows' = runs
    /\ threshold' = clampedThreshold(threshold, activeFlows, runs)
    /\ visibleFlows' = visibleFlowsOf(runs, threshold')
    /\ UNCHANGED <<pipeVars, gridVars, appVars, loopVars, csvVars, hourVars, ribbonVars, maskVars>>

ShownNext ==
    \/ \E runs \in ActiveLists : LoadFlows(runs)
    \/ \E least \in 0..3 : SetThreshold(least)
    \/ \E runs \in ActiveLists : ChangeFlows(runs)

InitPipe == PipeInit /\ GridInit /\ AppInit /\ LoopIdle /\ CsvIdle /\ HourIdle /\ RibbonIdle /\ MaskInit
              /\ ShownInit

SpecPipe == InitPipe /\ [][PipeNext]_vars

\* NetRetentionPeaks mounted and rendered with changing props.
InitGrid == PipeIdle /\ GridInit /\ AppInit /\ LoopIdle /\ CsvIdle /\ HourIdle /\ RibbonIdle /\ MaskInit
              /\ ShownInit

SpecGrid == InitGrid /\ [][GridNext]_vars

\* The same with renders that keep coming: while App plays the hours it hands
\* NetRetentionPeaks a new flows array on every animation frame, so a render
\* that runs the memo body is never put off forever.
SpecGridLive ==
    /\ InitGrid
    /\ [][GridNext]_vars
    /\ WF_<<calls, changes>>(\E fs \in FlowLists, spacing \in GridSizes :
                                Rendered(fs, spacing))

\* The viewer started on the artifacts of a finished run.
InitApp == PipeDone /\ GridInit /\ AppInit /\ LoopIdle /\ CsvIdle /\ HourIdle /\ RibbonIdle /\ MaskInit
              /\ ShownInit

SpecApp == InitApp /\ [][AppNext]_vars

\* The particle loop run once on drawn arguments.
InitLoop == PipeIdle /\ GridInit /\ AppInit /\ LoopInit /\ CsvIdle /\ HourIdle /\ RibbonIdle /\ MaskInit
              /\ ShownInit

SpecLoop == InitLoop /\ [][LoopNext]_vars

\* parseCsvLine run once on a line written from drawn fields.
InitCsv == PipeIdle /\ GridInit /\ AppInit /\ LoopIdle /\ CsvInit /\ HourIdle /\ RibbonIdle /\ MaskInit
              /\ ShownInit

SpecCsv == InitCsv /\ [][CsvNext]_vars

\* interpolateHourlyFlows run once on a drawn hourPosition.
InitHour == PipeIdle /\ GridInit /\ AppInit /\ LoopIdle /\ CsvIdle /\ HourInit /\ RibbonIdle /\ MaskInit
              /\ ShownInit

SpecHour == InitHour /\ [][HourNext]_vars

\* buildFlowRibbonGeometry run once on a drawn sample count.
InitRibbon == PipeIdle /\ GridInit /\ AppInit /\ LoopIdle /\ CsvIdle /\ HourIdle /\ RibbonInit /\ MaskInit
              /\ ShownInit

SpecRibbon == InitRibbon /\ [][RibbonNext]_vars

\* FlowCanvas mounted and unmounted while its texture loads.
InitMask == PipeIdle /\ GridInit /\ AppInit /\ LoopIdle /\ CsvIdle /\ HourIdle /\ RibbonIdle /\ MaskInit
              /\ ShownInit

SpecMask == InitMask /\ [][MaskNext]_vars

\* The threshold and the visible flows of App over changing flow lists.
InitShown == PipeIdle /\ GridInit /\ AppInit /\ LoopIdle /\ CsvIdle /\ HourIdle /\ RibbonIdle /\ MaskInit
              /\ ShownInit

SpecShown == InitShown /\ [][ShownNext]_vars

(***************************************************************************)
(* Properties of the weights and of the hourly interpolation               *)
(***************************************************************************)
accFlow(f) == acc.flowMap[mapFind(acc.flowMap, <<f.o, f.d>>, 1)]

accTotals == [k \in 1..Len(acc.flowMap) |-> acc.flowMap[k].total]

hourTotals(h) ==
    LET active == SelectSeq(acc.flowMap, LAMBDA f : f.hourly[h] > 0)
    IN [k \in 1..Len(active) |-> active[k].hourly[h]]

baseTotals == [k \in 1..Len(baseFlows) |-> baseFlows[k].total]

isRatMax(total, totals) == \A k \in 1..Len(totals) : RatLe(totals[k], total)

ratWeightOk(w, atMax) ==
    /\ w[2] > 0 /\ 0 <= w[1] /\ w[1] <= w[2]
    /\ atMax => w[1] = w[2]

\* C8: every w written by the pipeline (flows.json, each hourly frame) and every
\* w of the interpolated flow set lies in [0,1], and is 1 for every flow whose
\* total is the maximum of its comparison set.
C8_WeightsNormalized ==
    /\ ingested =>
          /\ \A f \in Range(out.flows) :
                /\ f.w \in 0..Micro
                /\ accFlow(f).total = seqMax(accTotals, 1) => f.w = Micro
          /\ \A h \in 0..23 : \A e \in Range(frameFlows(h)) :
                /\ e.w \in 0..Micro
                /\ accFlow(e).hourly[h] = seqMax(hourTotals(h), 1) => e.w = Micro
    /\ (data.loaded /\ mode = "hourly") =>
          \A f \in Range(baseFlows) : ratWeightOk(f.w, isRatMax(f.total, baseTotals))

atIntegerHour == data.loaded /\ mode = "hourly" /\ hourPosition % HourDiv = 0

frameAt(position) == data.hourly.frames[lowerHourOf(position) + 1]

ratSame(p, q) == IF p[2] = 0 \/ q[2] = 0 THEN p[2] = q[2] ELSE RatEq(p, q)

sameFlow(f, g) ==
    /\ f.o = g.o /\ f.d = g.d /\ ratSame(f.total, g.total)
    /\ \A j \in 1..4 : ratSame(f.bins[j], g.bins[j])
    /\ \A j \in 1..3 : ratSame(f.cuts[j], g.cuts[j])
    /\ ratSame(f.w, g.w)

\* C7 as stated: at an integer hour H the interpolated flows are frame H itself,
\* flow by flow in the same order, with the same total, bins, cuts and w.
C7_IntegerHourReproducesFrame ==
    atIntegerHour =>
        LET frame == frameAt(hourPosition).flows
        IN /\ Len(baseFlows) = Len(frame)
           /\ \A k \in 1..Len(baseFlows) : k <= Len(frame) => sameFlow(baseFlows[k], frame[k])

withoutFrame(frames, hour) ==
    [k \in 1..Len(frames) |->
        IF frames[k].hour = hour THEN [frames[k] EXCEPT !.flows = <<>>] ELSE frames[k]]

\* C7 as amended: at an integer hour H the interpolated flows are the flows of
\* frame H whose total is above 0.0001, in the frame's order, each with the
\* frame's total and bins; frame (H+1) mod 24 contributes nothing; the cuts are
\* recomputed from the frame's rounded bins and w over the kept totals, so they
\* need not be the frame's.
C7_IntegerHourKeepsFrameTotals ==
    atIntegerHour =>
        LET hour == lowerHourOf(hourPosition)
            frame == frameAt(hourPosition).flows
            kept == SelectSeq(frame, LAMBDA f : f.total[1] > GhostTotal * f.total[2])
        IN /\ Len(baseFlows) = Len(kept)
           /\ \A k \in 1..Len(baseFlows) : k <= Len(kept) =>
                 /\ baseFlows[k].o = kept[k].o /\ baseFlows[k].d = kept[k].d
                 /\ RatEq(baseFlows[k].total, kept[k].total)
                 /\ \A j \in 1..4 : RatEq(baseFlows[k].bins[j], kept[k].bins[j])
                 /\ baseFlows[k].cuts = cutsFromBins(kept[k].bins)
                 /\ ratWeightOk(baseFlows[k].w, isRatMax(kept[k].total, baseTotals))
           /\ baseFlows = interpolateHourlyFlows(
                             withoutFrame(data.hourly.frames, (hour + 1) % 24), hourPosition)

C7_Witness ==
    /\ atIntegerHour
    /\ Len(baseFlows) >= 1
    /\ \E f \in Range(frameAt(normalizeHour(hourPosition + HourDiv)).flows) :
          f.total[1] > GhostTotal * f.total[2]

(***************************************************************************)
(* Properties of the grid aggregation                                      *)
(***************************************************************************)
RECURSIVE sumNet(_, _)
sumNet(cells, k) == IF k > Len(cells) THEN 0 ELSE cells[k].net + sumNet(cells, k + 1)

\* C5: the raw net values of one aggregation call sum to zero over all cells.
C5_RawNetSumsToZero == sumNet(rawCells, 1) = 0

C5_Witness ==
    /\ flows = <<FlowC, FlowA, FlowD, FlowE>>
    /\ gridSize = 10000
    /\ Len(rawCells) >= 3
    /\ \E k \in 1..Len(rawCells) : rawCells[k].net > 0

ConvergeCalls == 48    \* calls on unchanged props after which every cell has settled
Epsilon == 100         \* 0.001 in quantity units

cellKeys(raw, smooth) == Range(allKeysOf(raw, smooth))

distance(smooth, raw, key) == Abs(netAt(smooth, key) - netAt(raw, key))

\* C6, each call: the distance of every cell to its raw target shrinks by the
\* factor 1 - 0.17 (to the nearest unit), or to 0 when the cell is evicted.
C6_EachCallShrinks ==
    (calls' # calls \/ changes' # changes) =>
        \A key \in cellKeys(rawCells', smoothNet) :
            LET before == distance(smoothNet, rawCells', key)
                after == distance(smoothNet', rawCells', key)
            IN /\ 100 * after <= (100 - SmoothFactorPercent) * before + 50
               /\ mapFind(smoothNet', key, 1) # 0
                     => 100 * after >= (100 - SmoothFactorPercent) * before - 50

\* C6, bounded: after ConvergeCalls calls on an unchanged flow set and grid
\* spacing every cell is within Epsilon of its raw target.
C6_Settled ==
    calls >= ConvergeCalls =>
        \A key \in cellKeys(rawCells, smoothNet) : distance(smoothNet, rawCells, key) <= Epsilon

\* C6: repeated aggregation on constant inputs converges geometrically, from
\* whatever smoothed state the earlier calls left.
C6_SmoothingConverges == [][C6_EachCallShrinks]_vars /\ [](C6_Settled)

C6_Witness ==
    /\ calls >= ConvergeCalls
    /\ changes = 2
    /\ Len(rawCells) >= 2
    /\ \E k \in 1..Len(smoothNet) : smoothNet[k].net > PositiveAbove
    /\ \E k \in 1..Len(smoothNet) : netAt(rawCells, smoothNet[k].key) # smoothNet[k].net

(***************************************************************************)
(* Properties of the frames, flows, destinations and nodes of the pipeline *)
(***************************************************************************)
\* The bins of a flow for one hour alone: its value of that hour in the
\* quadrant of the hour, 0 elsewhere.
hourBins(f, h) == [q \in 1..4 |-> IF q = h \div 6 + 1 THEN f.hourly[h] ELSE 0]

\* C11: every entry of the frame of hour h has total = hourly[h], bins that sum
\* to that per-hour total, and cuts that are the cumulative fractions of those
\* per-hour bins.
C11_FrameEntryOfThatHourAlone ==
    ingested =>
        \A h \in 0..23 : \A e \in Range(frameFlows(h)) :
            /\ e.total = round4(accFlow(e).hourly[h])
            /\ e.bins = roundBins(hourBins(accFlow(e), h))
            /\ e.bins[1] + e.bins[2] + e.bins[3] + e.bins[4] = e.total
            /\ e.cuts = buildCutsFromBins(hourBins(accFlow(e), h))

\* The rows of the file as records, and the ones the specification accepts.
parsedRows == [k \in 1..Len(rows) |-> parseRow(rows[k], cols)]

accepted(r) == ~invalidRecord(r)

\* The rounded coordinate keys of a row, and of the two ends of a flow.
rowPair(r) == <<<<toFixed6(r.oLon), toFixed6(r.oLat)>>, <<toFixed6(r.dLon), toFixed6(r.dLat)>>>>

keyOfId(m, id) == (CHOOSE e \in Range(m) : e.id = id).key

flowPair(f) == <<keyOfId(acc.nodeMap, f.o), keyOfId(acc.destinationMap, f.d)>>

\* The sum of the quantities of the accepted rows from the k-th on that have the
\* pair of keys, restricted to the hours of one quadrant (1..4) when quadrant # 0.
RECURSIVE sumAccepted(_, _, _, _)
sumAccepted(rs, k, pair, quadrant) ==
    IF k > Len(rs) THEN 0
    ELSE (IF /\ accepted(rs[k])
             /\ rowPair(rs[k]) = pair
             /\ quadrant # 0 => (rs[k].hour \div HourUnit) \div 6 + 1 = quadrant
          THEN rs[k].qty ELSE 0)
         + sumAccepted(rs, k + 1, pair, quadrant)

\* C12: after ingestion there is exactly one flow per pair of ids that occurs
\* in an accepted row; its total is the sum of the quantities of the accepted
\* rows with that pair, and bins[k] the sum over those whose hour is in
\* quadrant k.
C12_OneFlowPerPairWithItsSums ==
    ingested =>
        /\ \A r \in Range(parsedRows) : accepted(r) =>
              Cardinality({k \in 1..Len(acc.flowMap) : flowPair(acc.flowMap[k]) = rowPair(r)}) = 1
        /\ \A f \in Range(acc.flowMap) :
              /\ \E r \in Range(parsedRows) : accepted(r) /\ rowPair(r) = flowPair(f)
              /\ f.total = sumAccepted(parsedRows, 1, flowPair(f), 0)
              /\ \A q \in 1..4 : flowBins(f)[q] = sumAccepted(parsedRows, 1, flowPair(f), q)

\* The sum of the quantities of the accepted rows from the k-th on whose
\* destination has the key.
RECURSIVE sumInto(_, _, _)
sumInto(rs, k, dKey) ==
    IF k > Len(rs) THEN 0
    ELSE (IF accepted(rs[k]) /\ rowPair(rs[k])[2] = dKey THEN rs[k].qty ELSE 0)
         + sumInto(rs, k + 1, dKey)

\* The sum of the totals of the flows from the k-th on into destination id;
\* every flow when all is TRUE.
RECURSIVE sumTotals(_, _, _, _)
sumTotals(fs, k, id, all) ==
    IF k > Len(fs) THEN 0
    ELSE (IF all \/ fs[k].d = id THEN fs[k].total ELSE 0) + sumTotals(fs, k + 1, id, all)

RECURSIVE sumInbound(_, _)
sumInbound(ds, k) == IF k > Len(ds) THEN 0 ELSE ds[k].inbound + sumInbound(ds, k + 1)

\* C13: after ingestion the inbound of each destination is the sum of the
\* quantities of the accepted rows mapping to it, which is the sum of the totals
\* of the flows into it; the inbound of all destinations sums to the total of
\* all flows.
C13_InboundIsSumOfRowsAndFlows ==
    ingested =>
        /\ \A dest \in Range(acc.destinationMap) :
              /\ dest.inbound = sumInto(parsedRows, 1, dest.key)
              /\ dest.inbound = sumTotals(acc.flowMap, 1, dest.id, FALSE)
        /\ sumInbound(acc.destinationMap, 1) = sumTotals(acc.flowMap, 1, <<"d", 0>>, TRUE)

\* A coordinate rounded to 6 decimal places, as a number.
roundedCoord(v) == IF v >= 0 THEN MathRound(v, CoordRound) * CoordRound
                   ELSE -(MathRound(-v, CoordRound) * CoordRound)

roundedOrigin(r) == <<roundedCoord(r.oLon), roundedCoord(r.oLat)>>
roundedDestination(r) == <<roundedCoord(r.dLon), roundedCoord(r.dLat)>>
roundedPlace(e) == <<roundedCoord(e.lon), roundedCoord(e.lat)>>

\* The rows ingested so far, and the first of them with a rounded coordinate.
rowsSoFar == SubSeq(parsedRows, 1, i - 1)

firstWithOrigin(c) == CHOOSE k \in 1..Len(rowsSoFar) :
    /\ roundedOrigin(rowsSoFar[k]) = c
    /\ \A j \in 1..(k - 1) : roundedOrigin(rowsSoFar[j]) # c

firstWithDestination(c) == CHOOSE k \in 1..Len(rowsSoFar) :
    /\ roundedDestination(rowsSoFar[k]) = c
    /\ \A j \in 1..(k - 1) : roundedDestination(rowsSoFar[j]) # c

\* The ids of a map are prefix 0 .. prefix (n - 1), in the order of the entries.
idsInOrder(m, prefix) == \A k \in 1..Len(m) : m[k].id = <<prefix, k - 1>>

\* C14, state: when every row so far is accepted there is one Node per distinct
\* rounded origin coordinate and one Destination per distinct rounded destination
\* coordinate, with ids n0.. and d0.. in the order the coordinates were first
\* seen.
C14_OnePerRoundedKey ==
    (pc = "rows" /\ \A r \in Range(rowsSoFar) : accepted(r)) =>
        LET origins == {roundedOrigin(r) : r \in Range(rowsSoFar)}
            destinations == {roundedDestination(r) : r \in Range(rowsSoFar)}
        IN /\ Len(acc.nodeMap) = Cardinality(origins)
           /\ Len(acc.destinationMap) = Cardinality(destinations)
           /\ idsInOrder(acc.nodeMap, "n") /\ idsInOrder(acc.destinationMap, "d")
           /\ \A k, j \in 1..Len(acc.nodeMap) :
                 k < j => firstWithOrigin(roundedPlace(acc.nodeMap[k]))
                            < firstWithOrigin(roundedPlace(acc.nodeMap[j]))
           /\ \A k, j \in 1..Len(acc.destinationMap) :
                 k < j => firstWithDestination(roundedPlace(acc.destinationMap[k]))
                            < firstWithDestination(roundedPlace(acc.destinationMap[j]))

\* C14, step: a key that has an id keeps it, and stays at its place.
C14_IdsKept ==
    pc = "rows" /\ pc' = "rows" =>
        /\ \A k \in 1..Len(acc.nodeMap) :
              acc'.nodeMap[k].key = acc.nodeMap[k].key /\ acc'.nodeMap[k].id = acc.nodeMap[k].id
        /\ \A k \in 1..Len(acc.destinationMap) :
              /\ acc'.destinationMap[k].key = acc.destinationMap[k].key
              /\ acc'.destinationMap[k].id = acc.destinationMap[k].id

\* C14: after any sequence of accepted rows there is exactly one Node per
\* distinct 6-decimal-rounded origin coordinate and one Destination per distinct
\* rounded destination coordinate; the ids are n0..n(k-1) and d0..d(m-1) in
\* first-seen order, and an existing key never receives a new id.
C14_OneNodePerRoundedCoordinate == [](C14_OnePerRoundedKey) /\ [][C14_IdsKept]_vars

nonIncreasing(fs) == \A k \in 1..(Len(fs) - 1) : fs[k].total >= fs[k + 1].total

\* C15: the flows of flows.json and the flows of every hourly frame are ordered
\* by non-increasing total.
C15_FlowsDescendingByTotal ==
    ingested =>
        /\ nonIncreasing(out.flows)
        /\ \A h \in 0..23 : nonIncreasing(frameFlows(h))

C15_Witness ==
    /\ pc = "done"
    /\ Len(out.flows) = 2 /\ out.flows[1].total > out.flows[2].total
    /\ acc.flowMap[1].total < acc.flowMap[2].total
    /\ \E h \in 0..23 :
          /\ Len(frameFlows(h)) = 2
          /\ frameFlows(h)[1].total > frameFlows(h)[2].total
          /\ frameFlows(h)[1].o = acc.flowMap[2].o /\ frameFlows(h)[1].d = acc.flowMap[2].d

(***************************************************************************)
(* Properties of the smoothed state, the ticks and the particles           *)
(***************************************************************************)
propsChanged == flows' # flows \/ gridSize' # gridSize

\* C16: when the grid spacing or the flow set changes, the next aggregation call
\* starts from an empty smoothed cell map and from smoothedMax 1, so that its
\* smoothed cells and its smoothedMax are those of a first call on the new props.
C16_SmoothedStateResetOnChange ==
    [][propsChanged =>
          /\ smoothNet' = smoothCellsOf(<<>>, rawCells')
          /\ smoothMax' = smoothMaxOf(QtyOne, positiveCellsOf(smoothNet', rawCells'))]_vars

ticked == uniforms'.uTime # uniforms.uTime

\* C17: every animation tick runs the aggregation once, also on unchanged props:
\* a tick is one more call, and it moves the smoothed cells one step toward the
\* raw cells of the props.
C17_AggregationOnEveryTick ==
    [][ticked =>
          /\ calls' = calls + 1
          /\ smoothNet' = smoothCellsOf(smoothNet, rawCellsOf(flows, nodesById,
                                                              destinationsById, gridSize))]_vars

\* The particles of a geometry, as <<cell run, place in the run>>.
particlesIn(runs, which) ==
    UNION { { <<q, j>> : j \in 1..Len(runs[q].layers) } : q \in which }

particleCount(runs) == Cardinality(particlesIn(runs, 1..Len(runs)))

\* The particles pushed for the cell at (x, y).
particlesAt(runs, x, y) ==
    Cardinality(particlesIn(runs, { q \in 1..Len(runs) : runs[q].x = x /\ runs[q].y = y }))

\* C18: one run of the particle loop pushes at most 70000 particles in total and
\* at most 42 for any one cell.
C18_ParticleCeilings ==
    /\ particleCount(built) <= maxParticles
    /\ \A k \in 1..Len(cellsArg) :
          particlesAt(built, cellsArg[k].x, cellsArg[k].y) <= maxLayers

\* The ceiling cut the loop short: the first cell pushed the 38 particles of a
\* cell of full strength, the last cell fewer, and 70000 were pushed in all.
C18_Witness ==
    /\ loopPc = "built"
    /\ particleCount(built) = maxParticles
    /\ Len(cellsArg) = ManyCells /\ Len(built) = ManyCells
    /\ Len(built[1].layers) = 38
    /\ Len(built[ManyCells].layers) \in 1..37

\* The seed indexes of the particles of a geometry count 1, 2, 3, ... through
\* the cells in order.
seedsCountUp(runs) ==
    \A q \in 1..Len(runs) :
        LET before == particleCount(SubSeq(runs, 1, q - 1))
        IN \A j \in 1..Len(runs[q].layers) : runs[q].hashes[j] = hashesOf(before + j)

\* The call of this step has the inputs of the call before it.
sameInputsAsBefore ==
    /\ calls > 0 /\ calls' = calls + 1
    /\ flows' = flows /\ gridSize' = gridSize
    /\ prior' = prior

C19_SameInputsSameOutputs ==
    sameInputsAsBefore =>
        /\ geometry' = geometry
        /\ smoothNet' = smoothNet
        /\ smoothMax' = smoothMax

C20_ParseInvertsEncodingOfAnyList == csvPc = "parsed" => csvCells = csvFields

\* C20: parsing the line written from a list of one or more fields over the
\* letter, the comma and the quote gives that list back, field by field; a
\* comma between quotes does not split a field.
C20_ParseInvertsEncoding ==
    (csvPc = "parsed" /\ Len(csvFields) >= 1) =>
        /\ Len(csvCells) = Len(csvFields)
        /\ csvCells = csvFields

C20_Witness ==
    /\ csvPc = "parsed"
    /\ csvFields = << <<Comma, Quote>>, <<Quote, "a">> >>
    /\ csvCells = csvFields

(***************************************************************************)
(* Properties of the smoothing pass of one call                            *)
(***************************************************************************)
keysOf(m) == { m[k].key : k \in 1..Len(m) }

\* The keys of the raw pass of the latest call and of the smoothed map it began with.
touchedKeys == keysOf(rawCells) \cup keysOf(prior.smoothNet)

\* previous + (target - previous) * 0.17 for the key, absent values being 0.
steppedNet(key) ==
    netAt(prior.smoothNet, key)
      + scaleBy(netAt(rawCells, key) - netAt(prior.smoothNet, key), SmoothFactorPercent, 100)

\* C21: a call moves every key of the raw pass or of the prior smoothed map to
\* previous + (target - previous) * 0.17, removes the key when its target is 0
\* and the new magnitude is below 0.06, and adds no key outside that union.
C21_CallUpdatesEveryKey ==
    calls > 0 =>
        /\ \A key \in touchedKeys :
              IF netAt(rawCells, key) = 0 /\ Abs(steppedNet(key)) < EvictBelow
              THEN key \notin keysOf(smoothNet)
              ELSE /\ key \in keysOf(smoothNet)
                   /\ netAt(smoothNet, key) = steppedNet(key)
        /\ keysOf(smoothNet) \subseteq touchedKeys
        /\ Len(smoothNet) = Cardinality(keysOf(smoothNet))

\* A call that moved a key of the raw pass toward its target and removed a key
\* that only the prior map held.
C21_Witness ==
    /\ calls > 0
    /\ \E key \in keysOf(rawCells) :
          /\ key \in keysOf(prior.smoothNet) /\ key \in keysOf(smoothNet)
          /\ netAt(rawCells, key) # 0
          /\ netAt(smoothNet, key) # netAt(prior.smoothNet, key)
    /\ \E key \in keysOf(prior.smoothNet) \ keysOf(rawCells) : key \notin keysOf(smoothNet)

\* The smoothed cells above 0.12 after the latest call, and the largest of them.
selectedNets == { smoothNet[k].net : k \in 1..Len(smoothNet) } \cap { n \in Int : n > PositiveAbove }

topNet == CHOOSE n \in selectedNets : \A m \in selectedNets : m <= n

\* C22: a call moves smoothedMax toward the largest selected positive smoothed
\* value by the factor of the per-cell smoothing, 0.17.
C22_MaxSmoothedLikeCells ==
    (calls > 0 /\ selectedNets # {}) =>
        smoothMax = prior.smoothMax
                      + scaleBy(topNet - prior.smoothMax, SmoothFactorPercent, 100)

(***************************************************************************)
(* Properties of interpolateHourlyFlows                                    *)
(***************************************************************************)
\* C23: for every hourPosition, negative, at or above 24 or fractional,
\* lowerHour is in 0..23, upperHour is (lowerHour + 1) mod 24 and in 0..23, and
\* blend is in [0, 1); for a position in [23, 24) the upper frame is frame 0.
C23_HoursWrap ==
    hourPc = "done" =>
        /\ hourOut.lowerHour \in 0..23
        /\ hourOut.upperHour \in 0..23
        /\ hourOut.upperHour = (hourOut.lowerHour + 1) % 24
        /\ hourOut.blend >= 0 /\ hourOut.blend < HourDiv
        /\ (hourArg - (hourOut.lowerHour * HourDiv + hourOut.blend)) % (24 * HourDiv) = 0
        /\ hourOut.lowerHour = 23 =>
              /\ hourOut.upperHour = 0
              /\ hourOut.blend > 0 =>
                    \E k \in 1..Len(hourOut.flows) : hourOut.flows[k].o = <<"n", 1>>

\* A negative position between 23 h and 24 h of the day before: the flow of
\* frame 0 is blended in.
C23_Witness ==
    /\ hourPc = "done"
    /\ hourArg < 0 /\ hourOut.lowerHour = 23 /\ hourOut.blend = 3
    /\ Len(hourOut.flows) = 2 /\ hourOut.flows[1].o = <<"n", 1>>

\* The flows of the two frames next to the position interpolated at.
lowerFlows == SampleFrames[hourOut.lowerHour + 1].flows
upperFlows == SampleFrames[hourOut.upperHour + 1].flows

\* The flow of a frame under a key, or a flow of zeros when the frame has none.
flowUnder(fs, key) ==
    IF \E k \in 1..Len(fs) : flowKey(fs[k]) = key
    THEN fs[CHOOSE k \in 1..Len(fs) : flowKey(fs[k]) = key]
    ELSE [total |-> <<0, 1>>, bins |-> ZeroBins]

\* lower * (1 - blend) + upper * blend, blend being in quarters.
mixed(from, to) == <<from[1] * (HourDiv - hourOut.blend) + to[1] * hourOut.blend, HourDiv>>

mixedTotal(key) == mixed(flowUnder(lowerFlows, key).total, flowUnder(upperFlows, key).total)

unionKeys == { flowKey(f) : f \in Range(lowerFlows) \cup Range(upperFlows) }

\* C24: the interpolated flows are the keys of the two adjacent frames whose
\* mixed total is above 0.0001, each once, with total and bins mixed from the
\* two frames (a missing side counting as zero), in order of non-increasing
\* total.
C24_MergedFlowsAreTheUnionAboveEpsilon ==
    hourPc = "done" =>
        /\ { flowKey(f) : f \in Range(hourOut.flows) }
              = { key \in unionKeys : mixedTotal(key)[1] > GhostTotal * mixedTotal(key)[2] }
        /\ \A j, k \in 1..Len(hourOut.flows) :
              flowKey(hourOut.flows[j]) = flowKey(hourOut.flows[k]) => j = k
        /\ \A k \in 1..Len(hourOut.flows) :
              LET key == flowKey(hourOut.flows[k])
              IN /\ RatEq(hourOut.flows[k].total, mixedTotal(key))
                 /\ \A b \in 1..4 :
                       RatEq(hourOut.flows[k].bins[b],
                             mixed(flowUnder(lowerFlows, key).bins[b],
                                   flowUnder(upperFlows, key).bins[b]))
        /\ \A k \in 1..(Len(hourOut.flows) - 1) :
              RatLe(hourOut.flows[k + 1].total, hourOut.flows[k].total)

\* Between two hours: a flow that only the upper frame has comes first, a flow
\* that only the lower frame has comes second, and a third key of the two
\* frames is left out because its mixed total is not above 0.0001.
C24_Witness ==
    /\ hourPc = "done"
    /\ hourOut.blend # 0
    /\ Len(hourOut.flows) >= 2
    /\ flowKey(hourOut.flows[1]) \notin { flowKey(f) : f \in Range(lowerFlows) }
    /\ flowKey(hourOut.flows[2]) \notin { flowKey(f) : f \in Range(upperFlows) }
    /\ ~RatEq(hourOut.flows[1].total, hourOut.flows[2].total)

\* A key of the two frames whose mixed total is positive but not above 0.0001
\* is left out.
C24_GhostLeftOut ==
    /\ hourPc = "done"
    /\ \E key \in unionKeys :
          /\ mixedTotal(key)[1] > 0
          /\ key \notin { flowKey(f) : f \in Range(hourOut.flows) }

\* The number of vertices, and whether a sample count is a whole number.
vertexCount == Len(ribbon.us)
wholeSamples == ribbon.samples # NaN /\ ribbon.samples % SampleUnit = 0

\* Two vertices per sample, two triangles per pair of consecutive samples with
\* every index at a vertex, and u from 0 at the first sample to 1 at the last.
ribbonIsStrip ==
    /\ ribbon.samples # NaN
    /\ minSamples * SampleUnit <= ribbon.samples
    /\ ribbon.samples <= maxSamples * SampleUnit
    /\ vertexCount * SampleUnit = 2 * ribbon.samples
    /\ Len(ribbon.indices) * SampleUnit = 6 * (ribbon.samples - SampleUnit)
    /\ \A j \in 1..Len(ribbon.indices) :
          /\ ribbon.indices[j] >= 0
          /\ ribbon.indices[j] * SampleUnit <= 2 * ribbon.samples - SampleUnit
    /\ \A pair \in 0..((Len(ribbon.indices) \div 6) - 1) :
          \A t \in 1..6 : ribbon.indices[pair * 6 + t] = 2 * pair + stripOffsets[t]
    /\ vertexCount >= 2
    /\ RatEq(ribbon.us[1], <<0, 1>>)
    /\ RatEq(ribbon.us[vertexCount], <<1, 1>>)
    /\ \A v \in 1..vertexCount : RatLe(<<0, 1>>, ribbon.us[v]) /\ RatLe(ribbon.us[v], <<1, 1>>)

\* C25: whatever sample count is asked for, the count used is within 24..40,
\* the geometry has 2 * samples vertices and 6 * (samples - 1) indices, two
\* triangles per pair of consecutive samples, every index at a vertex, and u
\* goes from 0 at the first sample to 1 at the last.
C25_RibbonIsStripOfClampedSamples == ribbonPc = "built" => ribbonIsStrip

\* The same for whole sample counts and for no count given.
C25_RibbonOfWholeSamples ==
    (ribbonPc = "built" /\ (samplesArg = NoOption \/ (isFinite(samplesArg) /\ samplesArg % SampleUnit = 0)))
        => ribbonIsStrip

\* Every key a raw pass can produce.
GridCellKeys ==
    UNION { keysOf(rawCellsOf(fs, nodesById, destinationsById, spacing)) :
              fs \in FlowLists, spacing \in GridSizes }

\* A cell kept in the smoothed map although its raw target is zero.
stale(key) == key \in keysOf(smoothNet) /\ netAt(rawCells, key) = 0

C27_PlaybackStaysInDay == hourPosition >= 0 /\ hourPosition < 24 * HourDiv

\* The load of a run has produced a texture, and its FlowCanvas is unmounted.
loadedAndUnmounted(e) == e.load \in {"file", "canvas"} /\ ~e.mounted

\* C28: in whichever order the unmount and the end of the load come, the
\* loaded texture is disposed exactly once when both have happened and never
\* more than once or while mounted, and setAlphaMask is not called after the
\* unmount.
C28_TextureDisposedOnce ==
    \A k \in 1..Len(effects) :
        /\ effects[k].disposals <= 1
        /\ effects[k].mounted => effects[k].disposals = 0
        /\ loadedAndUnmounted(effects[k]) => effects[k].disposals = 1
        /\ ~effects[k].lateSet

\* Both orders have happened: one run was unmounted after its load, a later one
\* before its load, and both textures are disposed.
C28_Witness ==
    \E j, k \in 1..Len(effects) :
        /\ loadedAndUnmounted(effects[j]) /\ effects[j].texture = j
        /\ loadedAndUnmounted(effects[k]) /\ effects[k].texture = 0
        /\ effects[j].disposals = 1 /\ effects[k].disposals = 1

\* loadODData has settled.
loadSettled == data.loaded \/ appError # ""

\* C29: loadODData rejects exactly when meta.json, nodes.json,
\* destinations.json or flows.json fails; when only flows-hourly.json fails it
\* resolves with hourly undefined, and from then on the mode is aggregated and
\* the flows shown are data.flows, not interpolated ones.
C29_HourlyFailureIsAbsorbed ==
    loadSettled =>
        /\ appError # "" <=> fetchFailed \cap RequiredFiles # {}
        /\ appError # "" => appError \in fetchFailed /\ ~data.loaded
        /\ data.loaded => (data.hourly.defined <=> "flows-hourly.json" \notin fetchFailed)
        /\ (data.loaded /\ ~data.hourly.defined) =>
              /\ mode = "aggregated"
              /\ baseFlows = data.flows
              /\ ~hourlyAvailable(data)

\* Only flows-hourly.json failed: the data is loaded without hourly and its
\* flows are shown.
C29_Witness ==
    /\ fetchFailed = {"flows-hourly.json"}
    /\ data.loaded /\ ~data.hourly.defined
    /\ Len(baseFlows) >= 1
    /\ appError = ""

\* A required file failed together with flows-hourly.json: the load rejected.
C29_Rejected ==
    /\ fetchFailed = {"flows.json", "flows-hourly.json"}
    /\ appError = "flows.json"
    /\ ~data.loaded

\* How many flows of a list have a total in a set.
RECURSIVE countIn(_, _)
countIn(runs, totals) ==
    IF runs = <<>> THEN 0
    ELSE (IF Head(runs).total \in totals THEN Head(runs).count ELSE 0)
           + countIn(Tail(runs), totals)

passing == { t \in RunTotals : t >= threshold }

\* C30: the flows handed to the canvas are at most 1800, all with a total of
\* at least the threshold, in order of non-increasing total, and they are the
\* flows that pass the threshold with the largest totals (of each total, as
\* many as fit after all the larger ones); the threshold is at most the
\* largest total of the active flows (0 when there are none).
C30_VisibleFlowsAreTheTopFlows ==
    /\ lengthOf(visibleFlows) <= MAX_RENDERED_FLOWS
    /\ \A k \in 1..Len(visibleFlows) : visibleFlows[k].total >= threshold
    /\ \A k \in 1..(Len(visibleFlows) - 1) : visibleFlows[k].total >= visibleFlows[k + 1].total
    /\ \A t \in RunTotals :
          countIn(visibleFlows, {t})
            = IF t \in passing
              THEN Min2(countIn(activeFlows, {t}),
                        Max2(0, MAX_RENDERED_FLOWS
                                  - countIn(activeFlows, { u \in passing : u > t })))
              ELSE 0
    /\ threshold <= maxTotalOf(activeFlows)

\* More than 1800 flows pass a threshold above 0 that others do not pass; the
\* list was not in order, and 1800 flows of more than one total are kept.
C30_Witness ==
    /\ threshold > 0
    /\ countIn(activeFlows, passing) > MAX_RENDERED_FLOWS
    /\ countIn(activeFlows, passing) < lengthOf(activeFlows)
    /\ lengthOf(visibleFlows) = MAX_RENDERED_FLOWS
    /\ Len(visibleFlows) >= 2
    /\ visibleFlows[1].total > visibleFlows[2].total
    /\ activeFlows[1].total < activeFlows[Len(activeFlows)].total

\* A change of the flows has lowered the threshold to their largest total.
C30_ThresholdLowered ==
    /\ threshold = maxTotalOf(activeFlows)
    /\ threshold > 0
    /\ lengthOf(visibleFlows) >= 1
    /\ lengthOf(visibleFlows) < lengthOf(activeFlows)

====
